---- MODULE Spec2Model ----
(***************************************************************************)
(* Model of the tool functions of ohdsi_webapi_mcp (src/ohdsi_webapi_mcp/  *)
(* tools).  Every tool invocation is one action: it reads its arguments    *)
(* and the answers of the external WebAPI service (both drawn from small   *)
(* sets), runs the handler, and leaves the result and the log of remote    *)
(* calls in the state.  Return discards the finished invocation: nothing   *)
(* is retained between calls.                                              *)
(***************************************************************************)
EXTENDS Integers, Sequences, FiniteSets, TLC

VARIABLES
    pc,      \* "idle": no invocation in progress; "done": one has returned
    tool,    \* name of the tool function that ran
    args,    \* its arguments
    env,     \* process environment and the service's answers during the call
    result,  \* what the tool returned (or the exception it raised)
    calls    \* remote calls made on the client handle, in order

vars == <<pc, tool, args, env, result, calls>>

(***************************************************************************)
(* Bounds of the model.                                                    *)
(***************************************************************************)
MaxConceptId == 2
MaxIds == 3
MaxHits == 2
MaxConceptSets == 2
MaxRules == 2
MaxCohorts == 2
MaxEntries == 1
MaxRemoteCalls == 2
MaxFound == 3
MaxDays == 1
MaxOccurrences == 2
MaxInvocations == 2

ConceptIds == 1..MaxConceptId

SeqsUpTo(S, n) == UNION {[1..k -> S] : k \in 0..n}

Range(s) == {s[i] : i \in 1..Len(s)}

\* os.getenv("WEBAPI_BASE_URL"): unset/empty or a URL
BaseUrls == {"", "http://webapi"}

\* Python's s[:n]: the first n elements, or all but the last -n when n < 0
PyPrefix(s, n) ==
    LET stop == IF n >= 0 THEN (IF n < Len(s) THEN n ELSE Len(s))
                ELSE (IF Len(s) + n > 0 THEN Len(s) + n ELSE 0)
    IN  SubSeq(s, 1, stop)

RECURSIVE Concat(_)
Concat(ss) == IF ss = <<>> THEN <<>> ELSE Head(ss) \o Concat(Tail(ss))

(***************************************************************************)
(* tools/concept_sets.py: create_concept_set                               *)
(***************************************************************************)
\* client.vocabulary.get_concept(id): the concept, nothing, or an exception
LookupOutcomes == {"found", "none", "raise"}

\* The concept the service holds for an id.
GetConcept(id) == [concept_id |-> id]

\* One item of the concept-set expression (lines 54-68).
ConceptSetItem(concept, include_descendants, include_mapped) ==
    [CONCEPT_ID |-> concept.concept_id,
     data |-> concept,
     isExcluded |-> FALSE,
     includeDescendants |-> include_descendants,
     includeMapped |-> include_mapped]

\* The lookup loop (lines 40-49): stops at the first id that does not resolve.
RECURSIVE FetchConcepts(_, _, _, _)
FetchConcepts(concept_ids, vocab, i, concepts) ==
    IF i > Len(concept_ids)
    THEN [kind |-> "ok", concepts |-> concepts, lookups |-> i - 1, id |-> 0]
    ELSE LET concept_id == concept_ids[i] IN
         CASE vocab[concept_id] = "found" ->
                FetchConcepts(concept_ids, vocab, i + 1,
                              Append(concepts, GetConcept(concept_id)))
           [] vocab[concept_id] = "none" ->
                [kind |-> "not_found", concepts |-> <<>>, lookups |-> i,
                 id |-> concept_id]
           [] OTHER ->
                [kind |-> "error", concepts |-> <<>>, lookups |-> i,
                 id |-> concept_id]

\* Mutant: an id the service does not know is skipped instead of aborting.
FetchAllSkipMissing(concept_ids, vocab) ==
    FetchConcepts(SelectSeq(concept_ids, LAMBDA c : vocab[c] # "none"), vocab, 1, <<>>)

FetchAll(concept_ids, vocab) == FetchConcepts(concept_ids, vocab, 1, <<>>)

\* The whole tool: [result, calls].
create_concept_set(base_url, concept_ids, include_descendants, include_mapped, vocab) ==
    IF base_url = ""
    THEN [result |-> [kind |-> "raise", error |-> "ValueError: WEBAPI_BASE_URL"],
          calls |-> <<>>]
    ELSE LET f == FetchAll(concept_ids, vocab)
             lookups == [k \in 1..f.lookups |->
                            [op |-> "get_concept", arg |-> concept_ids[k]]]
             closing == <<[op |-> "close", arg |-> 0]>>
         IN  IF f.kind = "ok"
             THEN [result |->
                     [kind |-> "created",
                      count |-> Len(f.concepts),
                      items |-> [k \in 1..Len(f.concepts) |->
                                   ConceptSetItem(f.concepts[k],
                                                  include_descendants,
                                                  include_mapped)]],
                   calls |-> lookups \o closing]
             ELSE [result |-> [kind |-> f.kind, id |-> f.id],
                   calls |-> lookups \o closing]

(***************************************************************************)
(* tools/concept_sets.py: create_concept_set_from_search                   *)
(* (tools/concepts.py holds an older copy with the same loop)              *)
(***************************************************************************)
Terms == {"t1", "t2"}

\* The lists of search terms tried.
QueryLists ==
    {<<>>, <<"t1">>, <<"t1", "t2">>, <<"t2", "t1">>, <<"t1", "t1">>,
     <<"t2", "t1", "t2">>}

\* client.vocabulary.search(query=...): an exception, or the ids of the hits in
\* the service's order (the service is not assumed to honour page_size).
SearchOutcomes ==
    {[raises |-> TRUE, hits |-> <<>>]} \cup
    {[raises |-> FALSE, hits |-> h] : h \in SeqsUpTo(ConceptIds, MaxHits)}

\* The concept objects one search returns: each is a fresh object, told apart
\* by the query (its index in search_queries) and its position in the answer.
HitObjects(q, hits) ==
    [p \in 1..Len(hits) |-> [concept_id |-> hits[p], query |-> q, pos |-> p]]

\* The search loop (lines 145-167).  A search that raises leaves the loop.
RECURSIVE SearchLoop(_, _, _, _, _, _)
SearchLoop(search_queries, search, max_concepts_per_query, i, all_concepts, search_summary) ==
    IF i > Len(search_queries)
    THEN [kind |-> "ok", all_concepts |-> all_concepts,
          search_summary |-> search_summary, searches |-> i - 1]
    ELSE LET query == search_queries[i]
             outcome == search[query]
             concepts == HitObjects(i, outcome.hits)
         IN  IF outcome.raises
             THEN [kind |-> "error", all_concepts |-> <<>>,
                   search_summary |-> <<>>, searches |-> i]
             ELSE IF concepts # <<>>
             THEN SearchLoop(search_queries, search, max_concepts_per_query, i + 1,
                             all_concepts \o PyPrefix(concepts, max_concepts_per_query),
                             Append(search_summary,
                                    [query |-> query, found |-> Len(concepts)]))
             ELSE SearchLoop(search_queries, search, max_concepts_per_query, i + 1,
                             all_concepts,
                             Append(search_summary, [query |-> query, found |-> 0]))

\* Mutant: a search that raises is recorded as an empty answer and the loop
\* goes on with the next term.
SearchAllBestEffort(search_queries, search, max_concepts_per_query) ==
    LET quiet == [t \in Terms |->
                    IF search[t].raises THEN [raises |-> FALSE, hits |-> <<>>]
                    ELSE search[t]]
        s == SearchLoop(search_queries, quiet, max_concepts_per_query, 1, <<>>, <<>>)
    IN  s

SearchAll(search_queries, search, max_concepts_per_query) ==
    SearchLoop(search_queries, search, max_concepts_per_query, 1, <<>>, <<>>)

\* Mutant: a later occurrence of a key moves it to the end.
DictSetMoveToEnd(d, key, value) ==
    Append(SelectSeq(d, LAMBDA e : e.key # key), [key |-> key, value |-> value])

\* Mutant: an existing key keeps the value it has.
DictSetKeepFirst(d, key, value) ==
    IF \E k \in 1..Len(d) : d[k].key = key THEN d
    ELSE Append(d, [key |-> key, value |-> value])

\* unique_concepts[concept.concept_id] = concept on a dict (lines 170-172): a new
\* key goes to the end, an existing key keeps its place and takes the new value.
DictSet(d, key, value) ==
    IF \E k \in 1..Len(d) : d[k].key = key
    THEN [k \in 1..Len(d) |->
            IF d[k].key = key THEN [key |-> key, value |-> value] ELSE d[k]]
    ELSE Append(d, [key |-> key, value |-> value])

RECURSIVE UniqueConcepts(_, _)
UniqueConcepts(all_concepts, d) ==
    IF all_concepts = <<>> THEN d
    ELSE UniqueConcepts(Tail(all_concepts),
                        DictSet(d, Head(all_concepts).concept_id, Head(all_concepts)))

\* The whole tool: [result, calls].
create_concept_set_from_search(base_url, search_queries, max_concepts_per_query, include_descendants, include_mapped, search) ==
    IF base_url = ""
    THEN [result |-> [kind |-> "raise", error |-> "ValueError: WEBAPI_BASE_URL"],
          calls |-> <<>>]
    ELSE LET s == SearchAll(search_queries, search, max_concepts_per_query)
             searches == [k \in 1..s.searches |->
                            [op |-> "search", arg |-> search_queries[k]]]
             closing == <<[op |-> "close", arg |-> 0]>>
             unique_concepts == UniqueConcepts(s.all_concepts, <<>>)
         IN  IF s.kind = "ok"
             THEN [result |->
                     [kind |-> "created",
                      count |-> Len(unique_concepts),
                      items |-> [k \in 1..Len(unique_concepts) |->
                                   ConceptSetItem(unique_concepts[k].value,
                                                  include_descendants,
                                                  include_mapped)],
                      search_summary |-> s.search_summary],
                   calls |-> searches \o closing]
             ELSE [result |-> [kind |-> "error", id |-> 0],
                   calls |-> searches \o closing]

(***************************************************************************)
(* tools/cohorts.py: validate_cohort_definition                            *)
(***************************************************************************)
\* len(cs.expression.items) > 100 draws a warning (line 217)
BroadConceptSetSize == 100
\* obs_window.PriorDays > 365 draws a warning (line 228)
LongPriorDays == 365

Absent == [present |-> FALSE]

\* A concept set of the constructed CohortExpression: its expression may be
\* missing; the items count only through their number.
ConceptSetValues ==
    {[expression |-> Absent]} \cup
    {[expression |-> [present |-> TRUE, items |-> n]] :
        n \in {0, 1, BroadConceptSetSize, BroadConceptSetSize + 1}}

ObservationWindowValues ==
    {Absent} \cup
    {[present |-> TRUE, PriorDays |-> d] : d \in {LongPriorDays, LongPriorDays + 1}}

PrimaryCriteriaValues ==
    {Absent} \cup
    {[present |-> TRUE, CriteriaList |-> n, ObservationWindow |-> w] :
        n \in {0, 1}, w \in ObservationWindowValues}

InclusionRuleValues ==
    {[name |-> n, expression |-> x] : n \in {"", "rule"}, x \in BOOLEAN}

CohortExpressions ==
    {[PrimaryCriteria |-> pc0, ConceptSets |-> cs, InclusionRules |-> ir] :
        pc0 \in PrimaryCriteriaValues,
        cs \in SeqsUpTo(ConceptSetValues, MaxConceptSets),
        ir \in SeqsUpTo(InclusionRuleValues, MaxRules)}

Msg(check, at) == [check |-> check, at |-> at]

Findings(errors, warnings, raised) ==
    [errors |-> errors, warnings |-> warnings, raised |-> raised]

\* Mutant: a missing PrimaryCriteria is only a warning.
BasicStructureChecksLenient(cohort) ==
    Findings(<<>>,
             (IF ~cohort.PrimaryCriteria.present
              THEN <<Msg("missing_primary_criteria", 0)>> ELSE <<>>) \o
             (IF cohort.ConceptSets = <<>>
              THEN <<Msg("no_concept_sets", 0)>> ELSE <<>>),
             FALSE)

\* Basic structure validation (lines 203-208)
BasicStructureChecks(cohort) ==
    Findings(IF ~cohort.PrimaryCriteria.present
             THEN <<Msg("missing_primary_criteria", 0)>> ELSE <<>>,
             IF cohort.ConceptSets = <<>>
             THEN <<Msg("no_concept_sets", 0)>> ELSE <<>>,
             FALSE)

\* Validate concept sets (lines 210-218)
RECURSIVE ConceptSetChecks(_, _, _)
ConceptSetChecks(cohort, i, acc) ==
    IF i > Len(cohort.ConceptSets) THEN acc
    ELSE LET cs == cohort.ConceptSets[i]
             empty == ~cs.expression.present \/ cs.expression.items = 0
             broad == cs.expression.present /\ cs.expression.items > BroadConceptSetSize
         IN  ConceptSetChecks(cohort, i + 1,
                 Findings(acc.errors \o
                            (IF empty THEN <<Msg("concept_set_empty", i)>> ELSE <<>>),
                          acc.warnings \o
                            (IF broad THEN <<Msg("concept_set_broad", i)>> ELSE <<>>),
                          FALSE))

\* Mutant: the threshold is compared with >=.
ObservationWindowCheckOffByOne(primary_criteria) ==
    IF ~primary_criteria.ObservationWindow.present
    THEN Findings(<<>>, <<>>, TRUE)
    ELSE Findings(<<>>,
                  IF primary_criteria.ObservationWindow.PriorDays >= LongPriorDays
                  THEN <<Msg("long_prior_observation", 0)>> ELSE <<>>,
                  FALSE)

\* Check observation window (lines 226-229).  hasattr() holds for a field of the
\* schema class even when its value is None, and None.PriorDays raises.
ObservationWindowCheck(primary_criteria) ==
    IF ~primary_criteria.ObservationWindow.present
    THEN Findings(<<>>, <<>>, TRUE)
    ELSE Findings(<<>>,
                  IF primary_criteria.ObservationWindow.PriorDays > LongPriorDays
                  THEN <<Msg("long_prior_observation", 0)>> ELSE <<>>,
                  FALSE)

\* Validate primary criteria (lines 220-229)
PrimaryCriteriaChecks(cohort) ==
    IF ~cohort.PrimaryCriteria.present THEN Findings(<<>>, <<>>, FALSE)
    ELSE LET w == ObservationWindowCheck(cohort.PrimaryCriteria)
         IN  Findings(IF cohort.PrimaryCriteria.CriteriaList = 0
                      THEN <<Msg("empty_criteria_list", 0)>> ELSE <<>>,
                      w.warnings, w.raised)

\* Validate inclusion rules (lines 231-238)
RECURSIVE InclusionRuleChecks(_, _, _)
InclusionRuleChecks(cohort, i, acc) ==
    IF i > Len(cohort.InclusionRules) THEN acc
    ELSE LET rule == cohort.InclusionRules[i]
         IN  InclusionRuleChecks(cohort, i + 1,
                 Findings(acc.errors \o
                            (IF ~rule.expression
                             THEN <<Msg("rule_without_expression", i)>> ELSE <<>>),
                          acc.warnings \o
                            (IF rule.name = ""
                             THEN <<Msg("rule_without_name", i)>> ELSE <<>>),
                          FALSE))

\* Mutant: the later checks are skipped once an error was found.
RunChecksStopAtError(cohort) ==
    LET a == BasicStructureChecks(cohort)
        b == ConceptSetChecks(cohort, 1, Findings(<<>>, <<>>, FALSE))
        c == PrimaryCriteriaChecks(cohort)
        d == InclusionRuleChecks(cohort, 1, Findings(<<>>, <<>>, FALSE))
    IN  IF a.errors # <<>> THEN a
        ELSE Findings(a.errors \o b.errors \o c.errors \o d.errors,
                      a.warnings \o b.warnings \o c.warnings \o d.warnings,
                      c.raised)

\* The checks in the order of the code (lines 200-238): the two lists only grow.
RunChecks(cohort) ==
    LET a == BasicStructureChecks(cohort)
        b == ConceptSetChecks(cohort, 1, Findings(<<>>, <<>>, FALSE))
        c == PrimaryCriteriaChecks(cohort)
        d == InclusionRuleChecks(cohort, 1, Findings(<<>>, <<>>, FALSE))
    IN  Findings(a.errors \o b.errors \o c.errors \o d.errors,
                 a.warnings \o b.warnings \o c.warnings \o d.warnings,
                 c.raised)

RECURSIVE TotalConcepts(_)
TotalConcepts(concept_sets) ==
    IF concept_sets = <<>> THEN 0
    ELSE (IF Head(concept_sets).expression.present
          THEN Head(concept_sets).expression.items ELSE 0)
         + TotalConcepts(Tail(concept_sets))

\* Summary statistics (lines 258-266): the lines of the summary by label.
CohortSummary(cohort) ==
    LET lines == [ConceptSets |-> Len(cohort.ConceptSets),
                  InclusionRules |-> Len(cohort.InclusionRules),
                  PrimaryCriteria |-> cohort.PrimaryCriteria.present]
    IN  IF cohort.ConceptSets # <<>>
        THEN [k \in DOMAIN lines \cup {"TotalConcepts"} |->
                IF k = "TotalConcepts" THEN TotalConcepts(cohort.ConceptSets)
                ELSE lines[k]]
        ELSE lines

\* The whole tool.  schema is the outcome of CohortExpression(**cohort_definition).
validate_cohort_definition(cohort, schema) ==
    IF schema = "raise" THEN [kind |-> "failed"]
    ELSE LET f == RunChecks(cohort)
         IN  IF f.raised THEN [kind |-> "failed"]
             ELSE [kind |-> "report",
                   passed |-> (f.errors = <<>> /\ f.warnings = <<>>),
                   errors |-> f.errors,
                   warnings |-> f.warnings,
                   summary |-> CohortSummary(cohort)]

(***************************************************************************)
(* tools/persistence.py: load_existing_cohort                              *)
(***************************************************************************)
\* Cohort names are strings over a small alphabet with both cases.
CohortNames == {<<"d">>, <<"D">>, <<"d", "m">>, <<"D", "M">>, <<"m">>}

\* str.lower()
LowerChar(c) == CASE c = "D" -> "d" [] c = "M" -> "m" [] OTHER -> c

Lower(name) == [i \in 1..Len(name) |-> LowerChar(name[i])]

\* Python's "needle in hay" on strings
Contains(needle, hay) ==
    \E i \in 0..(Len(hay) - Len(needle)) : SubSeq(hay, i + 1, i + Len(needle)) = needle

\* for c in matching_cohorts[:10] (line 122)
AmbiguousListingLimit == 10

\* client.cohort_definitions.list(): the stored cohorts; the service numbers
\* them, here by position.
StoredCohorts(names) == [i \in 1..Len(names) |-> [id |-> i, name |-> names[i]]]

\* Mutant: only the substring filter is applied.
MatchingCohortsSubstringOnly(cohorts, cohort_name) ==
    SelectSeq(cohorts, LAMBDA c : Contains(Lower(cohort_name), Lower(c.name)))

\* Lines 112-116: exact case-insensitive matches, else substring matches.
MatchingCohorts(cohorts, cohort_name) ==
    LET exact == SelectSeq(cohorts, LAMBDA c : Lower(c.name) = Lower(cohort_name))
    IN  IF exact # <<>> THEN exact
        ELSE SelectSeq(cohorts, LAMBDA c : Contains(Lower(cohort_name), Lower(c.name)))

\* Mutant: several matches are resolved by taking the first.
SelectByNamePickFirst(matching_cohorts) ==
    IF matching_cohorts = <<>> THEN [kind |-> "no_match"]
    ELSE [kind |-> "one", cohort |-> matching_cohorts[1]]

\* Lines 118-127: nothing, an ambiguous listing, or the one match.
SelectByName(matching_cohorts) ==
    IF matching_cohorts = <<>> THEN [kind |-> "no_match"]
    ELSE IF Len(matching_cohorts) > 1
    THEN [kind |-> "ambiguous",
          listing |-> LET shown == PyPrefix(matching_cohorts, AmbiguousListingLimit)
                      IN  [k \in 1..Len(shown) |-> shown[k].id]]
    ELSE [kind |-> "one", cohort |-> matching_cohorts[1]]

Call(op, arg) == [op |-> op, arg |-> arg]

\* Lines 132-174: fetch the definition of the chosen cohort and report it.
LoadDefinition(cohort, service, before) ==
    IF service.definition = "raise"
    THEN [result |-> [kind |-> "error"],
          calls |-> before \o <<Call("get_definition", cohort.id), Call("close", 0)>>]
    ELSE [result |-> [kind |-> "loaded", cohort |-> cohort,
                      has_definition |-> (service.definition = "definition")],
          calls |-> before \o <<Call("get_definition", cohort.id), Call("close", 0)>>]

\* The whole tool: [result, calls].  cohort_id 0 and the empty name stand for
\* arguments not given (both are falsy).
load_existing_cohort(base_url, cohort_id, cohort_name, service) ==
    IF cohort_id = 0 /\ cohort_name = <<>>
    THEN [result |-> [kind |-> "raise", error |-> "ValueError: cohort_id or cohort_name"],
          calls |-> <<>>]
    ELSE IF base_url = ""
    THEN [result |-> [kind |-> "raise", error |-> "ValueError: WEBAPI_BASE_URL"],
          calls |-> <<>>]
    ELSE IF cohort_id # 0
    THEN \* Load by ID (lines 106-108, 129-130)
         LET cohorts == StoredCohorts(service.names)
             get == <<Call("get", cohort_id)>>
         IN  IF service.get_raises
             THEN [result |-> [kind |-> "error"], calls |-> get \o <<Call("close", 0)>>]
             ELSE IF cohort_id \notin 1..Len(cohorts)
             THEN [result |-> [kind |-> "not_found"],
                   calls |-> get \o <<Call("close", 0)>>]
             ELSE LoadDefinition(cohorts[cohort_id], service, get)
    ELSE \* Search by name (lines 110-127)
         LET list == <<Call("list", 0)>> IN
         IF service.list_raises
         THEN [result |-> [kind |-> "error"], calls |-> list \o <<Call("close", 0)>>]
         ELSE LET chosen == SelectByName(
                                MatchingCohorts(StoredCohorts(service.names), cohort_name))
              IN  IF chosen.kind = "one"
                  THEN LoadDefinition(chosen.cohort, service, list)
                  ELSE [result |-> chosen, calls |-> list \o <<Call("close", 0)>>]

(***************************************************************************)
(* JSON values (cohort definitions are dicts parsed from the service's     *)
(* JSON): null, numbers, strings, lists and dicts with string keys.        *)
(***************************************************************************)
JNull == [t |-> "null"]
JNum(n) == [t |-> "num", v |-> n]
JStr(str) == [t |-> "str", v |-> str]
JList(items) == [t |-> "list", v |-> items]
JObj(members) == [t |-> "obj", v |-> members]

EmptyDict == [k \in {} |-> JNull]

\* Mutant: every value counts as present.
TruthyAlways(x) == TRUE

\* bool(x) of a JSON value
Truthy(x) ==
    CASE x.t = "null" -> FALSE
      [] x.t = "num" -> x.v # 0
      [] x.t = "str" -> x.v # ""
      [] x.t = "list" -> Len(x.v) > 0
      [] x.t = "obj" -> DOMAIN x.v # {}

\* d.get(key, default)
DictGet(d, key, default) == IF key \in DOMAIN d.v THEN d.v[key] ELSE default

Tok(kind) == [k |-> kind]

\* json.dumps: the text as a sequence of tokens
RECURSIVE JsonDumps(_), DumpsItems(_, _), DumpsMembers(_, _)
JsonDumps(x) ==
    CASE x.t = "null" -> <<Tok("null")>>
      [] x.t = "num" -> <<[k |-> "num", n |-> x.v]>>
      [] x.t = "str" -> <<[k |-> "str", s |-> x.v]>>
      [] x.t = "list" -> <<Tok("[")>> \o DumpsItems(x.v, 1) \o <<Tok("]")>>
      [] x.t = "obj" -> <<Tok("{")>> \o DumpsMembers(x.v, DOMAIN x.v) \o <<Tok("}")>>

DumpsItems(items, i) ==
    IF i > Len(items) THEN <<>>
    ELSE JsonDumps(items[i]) \o (IF i < Len(items) THEN <<Tok(",")>> ELSE <<>>)
         \o DumpsItems(items, i + 1)

DumpsMembers(members, keys) ==
    IF keys = {} THEN <<>>
    ELSE LET key == CHOOSE k \in keys : TRUE
         IN  <<[k |-> "str", s |-> key], Tok(":")>> \o JsonDumps(members[key])
             \o (IF keys \ {key} # {} THEN <<Tok(",")>> ELSE <<>>)
             \o DumpsMembers(members, keys \ {key})

\* json.loads: a recursive-descent parse of the tokens; [value, next]
RECURSIVE ParseValue(_, _), ParseItems(_, _, _), ParseMembers(_, _, _)
ParseValue(toks, i) ==
    LET tok == toks[i] IN
    CASE tok.k = "null" -> [value |-> JNull, next |-> i + 1]
      [] tok.k = "num" -> [value |-> JNum(tok.n), next |-> i + 1]
      [] tok.k = "str" -> [value |-> JStr(tok.s), next |-> i + 1]
      [] tok.k = "[" ->
            IF toks[i + 1].k = "]" THEN [value |-> JList(<<>>), next |-> i + 2]
            ELSE ParseItems(toks, i + 1, <<>>)
      [] tok.k = "{" ->
            IF toks[i + 1].k = "}" THEN [value |-> JObj(EmptyDict), next |-> i + 2]
            ELSE ParseMembers(toks, i + 1, EmptyDict)

ParseItems(toks, i, acc) ==
    LET r == ParseValue(toks, i) IN
    IF toks[r.next].k = ","
    THEN ParseItems(toks, r.next + 1, Append(acc, r.value))
    ELSE [value |-> JList(Append(acc, r.value)), next |-> r.next + 1]

ParseMembers(toks, i, acc) ==
    LET key == toks[i].s
        r == ParseValue(toks, i + 2)
    IN  IF toks[r.next].k = ","
        THEN ParseMembers(toks, r.next + 1, (key :> r.value) @@ acc)
        ELSE [value |-> JObj((key :> r.value) @@ acc), next |-> r.next + 1]

JsonLoads(toks) == ParseValue(toks, 1).value

(***************************************************************************)
(* Cohort definitions handled by the persistence tools                     *)
(***************************************************************************)
ConceptSetDicts ==
    {JObj(EmptyDict),
     JObj([name |-> JStr("A")]),
     JObj([name |-> JStr("B"),
           expression |-> JObj([items |-> JList(<<JNum(1)>>)])])}

InclusionRuleDicts == {JObj(EmptyDict), JObj([name |-> JStr("R")])}

PrimaryCriteriaDicts ==
    {JObj(EmptyDict),
     JObj([ObservationWindow |-> JObj([PriorDays |-> JNum(0), PostDays |-> JNum(0)])])}

Given(x) == [present |-> TRUE, v |-> x]

\* a dict member that may be left out
Member(key, option) == IF option.present THEN (key :> option.v) ELSE EmptyDict

CohortDefinitions ==
    {JObj(Member("ConceptSets", cs) @@ Member("InclusionRules", ir)
          @@ Member("PrimaryCriteria", pc0)) :
        cs \in {Absent} \cup {Given(JList(x)) : x \in SeqsUpTo(ConceptSetDicts, MaxEntries)},
        ir \in {Absent} \cup {Given(JList(x)) : x \in SeqsUpTo(InclusionRuleDicts, MaxEntries)},
        pc0 \in {Absent} \cup {Given(x) : x \in PrimaryCriteriaDicts}}

(***************************************************************************)
(* tools/persistence.py: clone_cohort                                      *)
(***************************************************************************)
\* Mutant: the copy leaves out members whose value is empty.
CloneDefinitionDropsEmpty(source_definition) ==
    LET copy == JsonLoads(JsonDumps(source_definition))
    IN  JObj([k \in {x \in DOMAIN copy.v : Truthy(copy.v[x])} |-> copy.v[k]])

\* json.loads(json.dumps(source_definition)) (line 344)
CloneDefinition(source_definition) == JsonLoads(JsonDumps(source_definition))

\* Mutant: the map is merged in like dict.update - a key the copy does not have
\* is added.
ApplyModificationsUpdate(cloned_definition, modifications) ==
    IF ~modifications.present THEN cloned_definition
    ELSE JObj([k \in DOMAIN cloned_definition.v \cup DOMAIN modifications.v |->
                 IF k \in DOMAIN modifications.v THEN modifications.v[k]
                 ELSE cloned_definition.v[k]])

\* Lines 347-350: a key of the map replaces the value of the same top-level key
\* of the copy; a key the copy does not have is ignored.
ApplyModifications(cloned_definition, modifications) ==
    IF ~modifications.present \/ DOMAIN modifications.v = {}
    THEN cloned_definition
    ELSE JObj([k \in DOMAIN cloned_definition.v |->
                 IF k \in DOMAIN modifications.v THEN modifications.v[k]
                 ELSE cloned_definition.v[k]])

\* Lines 353-358
CloneCohortData(new_name, new_description, source_cohort, cloned_definition) ==
    [name |-> new_name,
     description |-> IF new_description # "" THEN new_description
                     ELSE <<"Clone of", source_cohort.name>>,
     expressionType |-> "SIMPLE_EXPRESSION",
     expression |-> cloned_definition]

\* What can happen at the service during a clone: everything works, the source
\* cohort is unknown or its fetch raises, the definition is missing or its fetch
\* raises, the create request raises.
CloneScenarios == {"ok", "get_none", "get_raise", "def_none", "def_raise", "create_raise"}

\* The whole tool: [result, calls].
clone_cohort(base_url, source_cohort_id, new_name, modifications, new_description, service) ==
    IF base_url = ""
    THEN [result |-> [kind |-> "raise", error |-> "ValueError: WEBAPI_BASE_URL"],
          calls |-> <<>>]
    ELSE LET close == <<Call("close", 0)>>
             get == <<Call("get", source_cohort_id)>>
             get_definition == <<Call("get_definition", source_cohort_id)>>
             source_cohort == [id |-> source_cohort_id, name |-> service.name]
             cloned_definition ==
                 ApplyModifications(CloneDefinition(service.definition), modifications)
             cohort_data == CloneCohortData(new_name, new_description, source_cohort,
                                            cloned_definition)
             create == <<Call("create", cohort_data)>>
         IN  CASE service.scenario = "get_raise" ->
                    [result |-> [kind |-> "error"], calls |-> get \o close]
               [] service.scenario = "get_none" ->
                    [result |-> [kind |-> "source_not_found"], calls |-> get \o close]
               [] service.scenario = "def_raise" ->
                    [result |-> [kind |-> "error"],
                     calls |-> get \o get_definition \o close]
               [] service.scenario = "def_none" \/ ~Truthy(service.definition) ->
                    [result |-> [kind |-> "no_definition"],
                     calls |-> get \o get_definition \o close]
               [] service.scenario = "create_raise" ->
                    [result |-> [kind |-> "error"],
                     calls |-> get \o get_definition \o create \o close]
               [] OTHER ->
                    [result |-> [kind |-> "cloned", name |-> cohort_data.name,
                                 description |-> cohort_data.description,
                                 modified |-> IF modifications.present
                                              THEN DOMAIN modifications.v ELSE {}],
                     calls |-> get \o get_definition \o create \o close]

(***************************************************************************)
(* tools/persistence.py: compare_cohorts                                   *)
(***************************************************************************)
\* total_checks = 4 (line 278)
TotalChecks == 4

\* {x.get("name", f"<prefix>_{i}") for i, x in enumerate(entries)} (lines 215,
\* 216, 240, 241); enumerate counts from 0
NamesOf(entries, prefix) ==
    {DictGet(entries[i], "name", JStr(prefix \o ToString(i - 1))) : i \in 1..Len(entries)}

\* Mutant: the overlap of names is worth two points.
NameOverlapDouble(common) == IF Cardinality(common) > 0 THEN 2 ELSE 0

\* if len(common) > 0: structure_score += 1 (lines 286-287)
NameOverlap(common) == IF Cardinality(common) > 0 THEN 1 ELSE 0

\* The whole tool (it makes no remote call).
compare_cohorts(cohort_a, cohort_b) ==
    LET cs_a == DictGet(cohort_a, "ConceptSets", JList(<<>>))
        cs_b == DictGet(cohort_b, "ConceptSets", JList(<<>>))
        cs_names_a == NamesOf(cs_a.v, "Unnamed_")
        cs_names_b == NamesOf(cs_b.v, "Unnamed_")
        common == cs_names_a \cap cs_names_b
        ir_a == DictGet(cohort_a, "InclusionRules", JList(<<>>))
        ir_b == DictGet(cohort_b, "InclusionRules", JList(<<>>))
        ir_names_a == NamesOf(ir_a.v, "Rule_")
        ir_names_b == NamesOf(ir_b.v, "Rule_")
        pc_a == DictGet(cohort_a, "PrimaryCriteria", JNull)
        pc_b == DictGet(cohort_b, "PrimaryCriteria", JNull)
        ow_a == DictGet(pc_a, "ObservationWindow", JObj(EmptyDict))
        ow_b == DictGet(pc_b, "ObservationWindow", JObj(EmptyDict))
        structure_score ==
            (IF Len(cs_a.v) = Len(cs_b.v) THEN 1 ELSE 0)
            + (IF Len(ir_a.v) = Len(ir_b.v) THEN 1 ELSE 0)
            + (IF Truthy(pc_a) = Truthy(pc_b) THEN 1 ELSE 0)
            + NameOverlap(common)
        similarity_pct == (structure_score * 100) \div TotalChecks
    IN  [kind |-> "compared",
         concept_sets |-> <<Len(cs_a.v), Len(cs_b.v)>>,
         only_a |-> cs_names_a \ cs_names_b,
         only_b |-> cs_names_b \ cs_names_a,
         common |-> common,
         inclusion_rules |-> <<Len(ir_a.v), Len(ir_b.v)>>,
         only_a_rules |-> ir_names_a \ ir_names_b,
         only_b_rules |-> ir_names_b \ ir_names_a,
         common_rules |-> ir_names_a \cap ir_names_b,
         primary_criteria |-> <<Truthy(pc_a), Truthy(pc_b)>>,
         window_differs |-> (Truthy(pc_a) /\ Truthy(pc_b) /\ ow_a # ow_b),
         structure_score |-> structure_score,
         similarity_pct |-> similarity_pct,
         verdict |-> IF similarity_pct > 80 THEN "very similar"
                     ELSE IF similarity_pct > 60 THEN "some differences"
                     ELSE "quite different"]

(***************************************************************************)
(* One invocation of a tool, from the request to the response: the tool    *)
(* functions of tools/, called directly, through handle_call_tool          *)
(* (server.py) or through an HTTP route (http_server.py, routes/).         *)
(***************************************************************************)
\* The tools that build a WebApiClient.
ClientTools ==
    {"search_concepts", "get_concept_details", "browse_concept_hierarchy",
     "list_domains", "list_vocabularies",
     "create_concept_set", "create_concept_set_from_search",
     "list_concept_sets", "get_concept_set_details",
     "estimate_cohort_size",
     "get_webapi_info", "get_webapi_version", "check_webapi_health",
     "list_data_sources", "get_source_details", "get_default_source",
     "get_job_status", "list_recent_jobs", "cancel_job", "monitor_job_progress",
     "save_cohort_definition", "load_existing_cohort", "list_cohorts",
     "clone_cohort"}

\* The tools that work on their arguments alone.
LocalTools ==
    {"define_primary_criteria", "add_inclusion_rule",
     "validate_cohort_definition", "compare_cohorts"}

ToolNames == ClientTools \cup LocalTools

\* The names handle_call_tool dispatches on (server.py lines 348-386).
McpTools ==
    {"search_concepts", "get_concept_details", "browse_concept_hierarchy",
     "list_domains", "list_vocabularies",
     "create_concept_set", "create_concept_set_from_search",
     "define_primary_criteria", "add_inclusion_rule",
     "validate_cohort_definition", "estimate_cohort_size",
     "save_cohort_definition", "load_existing_cohort", "list_cohorts",
     "compare_cohorts", "clone_cohort"}

\* The tools behind the routes of http_server.py, each with
\* config=Depends(get_webapi_config).
AppTools == McpTools

\* The tools behind the routers of routes/, which declare no dependency.
RouterTools == ToolNames

\* "tool": the tool function itself; "mcp": handle_call_tool; "app": a route of
\* http_server.py; "router": a route of routes/.
Surfaces == {"tool", "mcp", "app", "router"}

NamesOn(surface) ==
    CASE surface = "mcp" -> McpTools \cup {"no_such_tool"}
      [] surface = "app" -> AppTools
      [] surface = "router" -> RouterTools
      [] OTHER -> ToolNames

\* Messages of the exceptions, as sequences of words.
ConfigError == <<"WEBAPI_BASE_URL environment variable is required">>
SourceKeyError == <<"WEBAPI_SOURCE_KEY environment variable is required">>
SelectorError == <<"Either cohort_id or cohort_name must be provided">>
RemoteError == <<"remote call failed">>
LocalError == <<"local failure">>
UnknownTool(name) == <<"Unknown tool: ", name>>

Raised(error) == [kind |-> "raise", error |-> error]
Text(text) == [kind |-> "text", text |-> text]

\* The tools whose body sits in try/except Exception: every tool but
\* search_concepts, which has try/finally only.
CatchesAll(t) == t # "search_concepts"

\* Mutant: the configuration is not looked at before the client is built.
PrologueWithoutConfigCheck(t, request, environment) ==
    IF t = "load_existing_cohort" /\ ~request.has_selector THEN SelectorError
    ELSE <<>>

\* What a tool does before it builds its client: the exception it raises, or
\* <<>> when it goes on.
Prologue(t, request, environment) ==
    IF t = "load_existing_cohort" /\ ~request.has_selector THEN SelectorError
    ELSE IF t \in ClientTools /\ environment.base_url = "" THEN ConfigError
    ELSE IF t = "estimate_cohort_size" /\ ~request.has_source_key
                                       /\ environment.source_key = ""
         THEN SourceKeyError
    ELSE <<>>

\* An exception in the body: returned as text by except Exception, or left to
\* propagate.
OnException(t, error) ==
    IF CatchesAll(t) THEN Text(<<"Error: ">> \o error) ELSE Raised(error)

\* Mutant: an exception in the body skips the release of the handle.
AfterBodySkipsFinallyOnError(t, outcome) ==
    IF outcome = "raise" /\ t \in ClientTools THEN "returned" ELSE "finally"

\* Where control goes when the body is left: the finally clause, on every way
\* out (return, return from except, propagating exception).
AfterBody(t, outcome) == "finally"

\* Mutant: the exception of a tool leaves handle_call_tool.
handle_call_tool_reraises(name, outcome) == outcome

\* handle_call_tool (server.py lines 345-391): except Exception turns whatever
\* the tool raised into a text result.
handle_call_tool(name, outcome) ==
    IF outcome.kind = "raise"
    THEN Text(<<"Error executing ", name, ": ">> \o outcome.error)
    ELSE outcome

\* get_webapi_config (http_server.py lines 38-47)
get_webapi_config(environment) ==
    IF environment.base_url = ""
    THEN [status |-> 500, detail |-> ConfigError]
    ELSE [status |-> 200]

\* Mutant: the failure of a tool is answered as a success carrying the message.
EndpointAlwaysSucceeds(outcome) ==
    [status |-> 200,
     body |-> [status |-> "success",
               data |-> IF outcome.kind = "raise" THEN Text(outcome.error)
                        ELSE outcome]]

\* A route handler: try / return {"status": "success", "data": result} /
\* except Exception: raise HTTPException(status_code=500, detail=str(e)).
Endpoint(outcome) ==
    IF outcome.kind = "raise"
    THEN [status |-> 500, detail |-> outcome.error]
    ELSE [status |-> 200, body |-> [status |-> "success", data |-> outcome]]

\* What the caller of the surface gets for what the tool did.
Response(surface, name, outcome) ==
    CASE surface = "mcp" -> handle_call_tool(name, outcome)
      [] surface \in {"app", "router"} -> Endpoint(outcome)
      [] OTHER -> outcome

(***************************************************************************)
(* tools/vocabulary.py: search_concepts                                    *)
(* (tools/concepts.py holds an older copy with the same body)              *)
(***************************************************************************)
\* "page_size": min(limit, 100)  (line 74)
PageSizeCap == 100

\* Mutant: the limit is passed on as it is.
MinUncapped(a, b) == a

Min(a, b) == IF a < b THEN a ELSE b

\* The optional filters of a search, "" standing for None.
SearchFilters ==
    [domain : {"", "Condition"}, vocabulary : {"", "SNOMED"},
     concept_class : {""}, standard_only : BOOLEAN, include_invalid : {FALSE}]

\* The keyword arguments of client.vocabulary.search (lines 72-88).
SearchKwargs(query, limit, filters) ==
    [query |-> query,
     page_size |-> Min(limit, PageSizeCap),
     domain_id |-> IF filters.domain # "" THEN Given(filters.domain) ELSE Absent,
     vocabulary_id |-> IF filters.vocabulary # "" THEN Given(filters.vocabulary)
                       ELSE Absent,
     concept_class_id |-> IF filters.concept_class # ""
                          THEN Given(filters.concept_class) ELSE Absent,
     standard_concept |-> IF filters.standard_only THEN Given("S") ELSE Absent,
     invalid_reason |-> IF ~filters.include_invalid THEN Given("") ELSE Absent]

\* The filters named in the header (lines 106-119).
FilterInfo(filters) ==
    (IF filters.domain # "" THEN <<"Domain">> ELSE <<>>)
    \o (IF filters.vocabulary # "" THEN <<"Vocabulary">> ELSE <<>>)
    \o (IF filters.concept_class # "" THEN <<"Class">> ELSE <<>>)
    \o (IF filters.standard_only THEN <<"Standard concepts only">> ELSE <<>>)
    \o (IF ~filters.include_invalid THEN <<"Valid concepts only">> ELSE <<>>)

\* What client.vocabulary.search answers: an exception, or found concepts (the
\* service is not assumed to honour page_size).
FoundConcepts(found) == [p \in 1..found |-> [concept_id |-> p]]

\* Mutant: every concept found gets a block, whatever the limit.
ConceptBlocksUnlimited(concepts, limit) ==
    [k \in 1..Len(concepts) |-> [text |-> "concept", concept_id |-> concepts[k].concept_id]]

\* for concept in concepts[:limit]: one text item each (lines 121-135)
ConceptBlocks(concepts, limit) ==
    LET shown == PyPrefix(concepts, limit) IN
    [k \in 1..Len(shown) |-> [text |-> "concept", concept_id |-> shown[k].concept_id]]

\* The whole tool: [result, calls].
search_concepts(base_url, query, limit, filters, answer) ==
    IF base_url = ""
    THEN [result |-> Raised(ConfigError), calls |-> <<>>]
    ELSE LET searching == <<Call("search", SearchKwargs(query, limit, filters)),
                            Call("close", 0)>>
             concepts == FoundConcepts(answer.found)
         IN  IF answer.raises
             THEN [result |-> Raised(RemoteError), calls |-> searching]
             ELSE IF concepts = <<>>
             THEN [result |-> [kind |-> "none_found", query |-> query],
                   calls |-> searching]
             ELSE [result |->
                     [kind |-> "found",
                      items |-> <<[text |-> "Found", count |-> Len(concepts),
                                   query |-> query,
                                   filter_info |-> FilterInfo(filters)]>>
                                \o ConceptBlocks(concepts, limit)],
                   calls |-> searching]

(***************************************************************************)
(* tools/cohorts.py: define_primary_criteria                               *)
(***************************************************************************)
\* domain_mapping (lines 37-48), in the order the dict is written
domain_mapping ==
    <<[key |-> "ConditionOccurrence", value |-> "ConditionOccurrence"],
      [key |-> "Condition", value |-> "ConditionOccurrence"],
      [key |-> "DrugExposure", value |-> "DrugExposure"],
      [key |-> "Drug", value |-> "DrugExposure"],
      [key |-> "ProcedureOccurrence", value |-> "ProcedureOccurrence"],
      [key |-> "Procedure", value |-> "ProcedureOccurrence"],
      [key |-> "Measurement", value |-> "Measurement"],
      [key |-> "Observation", value |-> "Observation"],
      [key |-> "DeviceExposure", value |-> "DeviceExposure"],
      [key |-> "Device", value |-> "DeviceExposure"]>>

\* dict.get(key): the value, or "" standing for None
MappingGet(mapping, key) ==
    IF \E k \in 1..Len(mapping) : mapping[k].key = key
    THEN mapping[CHOOSE k \in 1..Len(mapping) : mapping[k].key = key].value
    ELSE ""

MappingKeys(mapping) == [k \in 1..Len(mapping) |-> mapping[k].key]

\* The labels tried: the keys of the table and some labels outside it.
DomainLabels ==
    Range(MappingKeys(domain_mapping)) \cup {"", "condition", "Visit", "DrugEra"}

\* occurrence_type: str = "First"
DefaultOccurrenceType == "First"

\* Mutant: the short labels are not in the table.
ResolveDomainLongNamesOnly(domain) ==
    IF \E k \in 1..Len(domain_mapping) : domain_mapping[k].value = domain
    THEN domain ELSE ""

\* criteria_type = domain_mapping.get(domain)  (line 50)
ResolveDomain(domain) == MappingGet(domain_mapping, domain)

\* The whole tool: its result.
define_primary_criteria(concept_set_id, domain, occurrence_type, observation_window_prior, observation_window_post) ==
    LET criteria_type == ResolveDomain(domain)
        limit_type == IF occurrence_type.present THEN occurrence_type.v
                      ELSE DefaultOccurrenceType
    IN  IF criteria_type = ""
        THEN [kind |-> "unsupported", domain |-> domain,
              supported |-> MappingKeys(domain_mapping)]
        ELSE [kind |-> "criteria",
              domain |-> domain,
              criteria_type |-> criteria_type,
              primary_criteria |->
                [CriteriaList |->
                   <<[key |-> criteria_type,
                      value |-> [CodesetId |-> concept_set_id,
                                 TypeExclude |-> [prefix |-> criteria_type,
                                                  value |-> FALSE]]]>>,
                 ObservationWindow |-> [PriorDays |-> observation_window_prior,
                                        PostDays |-> observation_window_post],
                 PrimaryCriteriaLimit |-> [Type |-> limit_type]]]

(***************************************************************************)
(* server.py: handle_list_tools                                            *)
(***************************************************************************)
\* Mutant: every tool function of tools/ is advertised.
ListedToolsEveryFunction == ToolNames

\* The names of the types.Tool entries handle_list_tools returns (server.py
\* lines 85-323), in the order of the list.
ListedTools ==
    {"search_concepts", "get_concept_details", "browse_concept_hierarchy",
     "list_domains", "list_vocabularies",
     "create_concept_set", "create_concept_set_from_search",
     "define_primary_criteria", "add_inclusion_rule",
     "validate_cohort_definition", "estimate_cohort_size",
     "save_cohort_definition", "load_existing_cohort", "list_cohorts",
     "compare_cohorts", "clone_cohort"}

handle_list_tools == [kind |-> "tools", names |-> ListedTools]

(***************************************************************************)
(* tools/jobs.py: cancel_job                                               *)
(***************************************************************************)
\* Status strings a job can carry, in several letter cases.
JobStatuses ==
    {"STARTED", "RUNNING", "running", "COMPLETED", "completed", "FAILED",
     "Failed", "CANCELED", "canceled", "STOPPED"}

\* str.upper() on the status strings
Upper(status) ==
    CASE status = "running" -> "RUNNING"
      [] status = "completed" -> "COMPLETED"
      [] status = "Failed" -> "FAILED"
      [] status = "canceled" -> "CANCELED"
      [] OTHER -> status

\* Mutant: a canceled job is not taken as finished.
IsTerminalWithoutCanceled(status) == Upper(status) \in {"COMPLETED", "FAILED"}

\* current_status.status.upper() in ["COMPLETED", "FAILED", "CANCELED"] (line 192)
IsTerminal(status) == Upper(status) \in {"COMPLETED", "FAILED", "CANCELED"}

\* client.jobs.status(execution_id): it raises, returns nothing, returns an
\* object without a status attribute, or returns a job with a status
StatusAnswers ==
    {[kind |-> k, status |-> ""] : k \in {"raise", "none", "no_status"}}
    \cup {[kind |-> "job", status |-> s] : s \in JobStatuses}

\* client.jobs.cancel(execution_id): it raises, returns nothing, or returns an
\* object with success set, with a message, or with neither
CancelAnswers == {"raise", "none", "success", "message", "plain"}

\* The service a cancel_job invocation meets.
JobServices == [has_cancel : BOOLEAN, status : StatusAnswers, cancel : CancelAnswers]

\* The result line after "Status: Cancellation requested" (lines 203-211).
CancelResultLine(answer) ==
    CASE answer = "success" -> "Successfully canceled"
      [] answer = "message" -> "Message"
      [] OTHER -> "Cancellation request submitted"

\* The whole tool: [result, calls].
cancel_job(base_url, execution_id, service) ==
    LET status == <<Call("status", execution_id)>>
        cancel == <<Call("cancel", execution_id)>>
        close == <<Call("close", 0)>>
    IN  IF base_url = ""
        THEN [result |-> Raised(ConfigError), calls |-> <<>>]
        ELSE IF ~service.has_cancel
        THEN [result |-> [kind |-> "unavailable"], calls |-> close]
        ELSE IF service.status.kind = "raise"
        THEN [result |-> [kind |-> "error"], calls |-> status \o close]
        ELSE IF service.status.kind = "none"
        THEN [result |-> [kind |-> "no_job", execution_id |-> execution_id],
              calls |-> status \o close]
        ELSE IF service.status.kind = "job" /\ IsTerminal(service.status.status)
        THEN [result |-> [kind |-> "already", execution_id |-> execution_id,
                          status |-> service.status.status],
              calls |-> status \o close]
        ELSE IF service.cancel = "raise"
        THEN [result |-> [kind |-> "error"], calls |-> status \o cancel \o close]
        ELSE [result |-> [kind |-> "requested", execution_id |-> execution_id,
                          line |-> CancelResultLine(service.cancel)],
              calls |-> status \o cancel \o close]

(***************************************************************************)
(* tools/cohorts.py: add_inclusion_rule                                    *)
(***************************************************************************)
\* An offset of a window: None, or a number of days relative to the index.
Offsets == {Absent} \cup {Given(n) : n \in (0 - MaxDays)..MaxDays}

\* (offset or 0)
OrZero(offset) == IF offset.present /\ offset.v # 0 THEN offset.v ELSE 0

\* Mutant: an offset of zero, or none, counts as negative.
CoeffNegativeUnlessPositive(offset) == IF OrZero(offset) <= 0 THEN -1 ELSE 1

\* "Coeff": -1 if (offset or 0) < 0 else 1  (lines 136, 138, 147, 149)
Coeff(offset) == IF OrZero(offset) < 0 THEN -1 ELSE 1

\* "Days": offset if offset is not None else 0  (lines 135, 138, 146, 149)
Days(offset) == IF offset.present THEN offset.v ELSE 0

\* start_window / end_window (lines 129-152): built when either end is given
Window(window_start, window_end) ==
    IF window_start.present \/ window_end.present
    THEN Given([Start |-> [Days |-> Days(window_start), Coeff |-> Coeff(window_start)],
                End |-> [Days |-> Days(window_end), Coeff |-> Coeff(window_end)],
                UseIndexEnd |-> FALSE,
                UseEventEnd |-> FALSE])
    ELSE Absent

\* Mutant: the count is attached whatever it is.
OccurrenceCountFieldAlways(occurrence_count) == Given(occurrence_count)

\* if occurrence_count > 1: criteria_item[criteria_type]["OccurrenceCount"] =
\* occurrence_count  (lines 125-126)
OccurrenceCountField(occurrence_count) ==
    IF occurrence_count > 1 THEN Given(occurrence_count) ELSE Absent

\* The whole tool: its result. A field of a dict that may be missing is
\* Absent or Given(value).
add_inclusion_rule(name, criteria_type, concept_set_id, start_window_start, start_window_end, end_window_start, end_window_end, occurrence_count) ==
    LET criteria_item ==
            [key |-> criteria_type,
             value |-> [CodesetId |-> concept_set_id,
                        TypeExclude |-> [prefix |-> criteria_type, value |-> FALSE],
                        OccurrenceCount |-> OccurrenceCountField(occurrence_count)]]
        start_window == Window(start_window_start, start_window_end)
        end_window == Window(end_window_start, end_window_end)
    IN  [kind |-> "rule",
         occurrence_count |-> occurrence_count,
         start_window_line |-> start_window.present,
         end_window_line |-> end_window.present,
         inclusion_rule |->
            [name |-> name,
             expression |-> [Type |-> "ALL",
                             CriteriaList |-> <<criteria_item>>,
                             DemographicCriteriaList |-> <<>>,
                             Groups |-> <<>>,
                             StartWindow |-> start_window,
                             EndWindow |-> end_window]]]

(***************************************************************************)
(* Concurrent invocations (server.py, http_server.py): every tool call is  *)
(* a coroutine of its own; the handles are the WebApiClient objects the    *)
(* invocations build, in the order they are built.                         *)
(***************************************************************************)
\* Mutant: one client object, built once, serves every invocation.
NewHandleShared(handles, p) == 1

\* client = WebApiClient(webapi_base_url): a new object for the invocation
\* (concept_sets.py line 37, persistence.py line 330)
NewHandle(handles, p) == Len(handles) + 1

\* The handle table after invocation p built (or was given) handle h.
OpenHandle(handles, h, p) ==
    IF h > Len(handles)
    THEN Append(handles, [owner |-> p, open |-> TRUE, log |-> <<>>, users |-> {}])
    ELSE handles

\* Invocation p makes a call on handle h.
CallOn(handles, h, p, call) ==
    [handles EXCEPT ![h].log = Append(@, call), ![h].users = @ \cup {p}]

\* finally: client.close()
CloseHandle(handles, h, p) ==
    [handles EXCEPT ![h].open = FALSE,
                    ![h].log = Append(@, Call("close", 0)),
                    ![h].users = @ \cup {p}]

\* What a call on handle h answers: what the service holds for it, or an
\* exception when the handle was closed before.
Answered(handles, h, planned) == IF handles[h].open THEN planned ELSE "raise"

(***************************************************************************)
(* State machine                                                           *)
(***************************************************************************)
NoArgs == [none |-> TRUE]

Init ==
    /\ pc = "idle"
    /\ tool = "none"
    /\ args = NoArgs
    /\ env = NoArgs
    /\ result = NoArgs
    /\ calls = <<>>

Return ==
    /\ pc = "done"
    /\ pc' = "idle"
    /\ tool' = "none"
    /\ args' = NoArgs
    /\ env' = NoArgs
    /\ result' = NoArgs
    /\ calls' = <<>>

CreateConceptSet ==
    /\ pc = "idle"
    /\ \E base_url \in BaseUrls,
          concept_ids \in SeqsUpTo(ConceptIds, MaxIds),
          vocab \in [ConceptIds -> LookupOutcomes],
          include_descendants \in BOOLEAN,
          include_mapped \in BOOLEAN :
          LET r == create_concept_set(base_url, concept_ids, include_descendants,
                                      include_mapped, vocab)
          IN  /\ tool' = "create_concept_set"
              /\ args' = [concept_ids |-> concept_ids,
                          include_descendants |-> include_descendants,
                          include_mapped |-> include_mapped]
              /\ env' = [base_url |-> base_url, vocab |-> vocab]
              /\ result' = r.result
              /\ calls' = r.calls
    /\ pc' = "done"

CreateConceptSetFromSearch ==
    /\ pc = "idle"
    /\ \E base_url \in BaseUrls,
          search_queries \in QueryLists,
          max_concepts_per_query \in 0..MaxHits,
          search \in [Terms -> SearchOutcomes],
          include_descendants \in BOOLEAN :
          LET r == create_concept_set_from_search(
                       base_url, search_queries, max_concepts_per_query,
                       include_descendants, FALSE, search)
          IN  /\ tool' = "create_concept_set_from_search"
              /\ args' = [search_queries |-> search_queries,
                          max_concepts_per_query |-> max_concepts_per_query,
                          include_descendants |-> include_descendants,
                          include_mapped |-> FALSE]
              /\ env' = [base_url |-> base_url, search |-> search]
              /\ result' = r.result
              /\ calls' = r.calls
    /\ pc' = "done"

NextConceptSets == CreateConceptSet \/ CreateConceptSetFromSearch \/ Return

SpecConceptSets == Init /\ [][NextConceptSets]_vars

ValidateCohortDefinition ==
    /\ pc = "idle"
    /\ \E cohort \in CohortExpressions, schema \in {"ok", "raise"} :
          /\ tool' = "validate_cohort_definition"
          /\ args' = [cohort_definition |-> cohort]
          /\ env' = [schema |-> schema]
          /\ result' = validate_cohort_definition(cohort, schema)
          /\ calls' = <<>>
    /\ pc' = "done"

NextValidate == ValidateCohortDefinition \/ Return

SpecValidate == Init /\ [][NextValidate]_vars

\* What the cohort-definition endpoints of the service answer during one call.
CohortServices ==
    [names : SeqsUpTo(CohortNames, MaxCohorts),
     list_raises : BOOLEAN,
     get_raises : BOOLEAN,
     definition : {"definition", "empty", "raise"}]

LoadExistingCohort ==
    /\ pc = "idle"
    /\ \E base_url \in BaseUrls,
          cohort_id \in 0..MaxCohorts,
          cohort_name \in CohortNames \cup {<<>>},
          service \in CohortServices :
          LET r == load_existing_cohort(base_url, cohort_id, cohort_name, service)
          IN  /\ tool' = "load_existing_cohort"
              /\ args' = [cohort_id |-> cohort_id, cohort_name |-> cohort_name]
              /\ env' = [base_url |-> base_url, service |-> service]
              /\ result' = r.result
              /\ calls' = r.calls
    /\ pc' = "done"

NextLoad == LoadExistingCohort \/ Return

SpecLoad == Init /\ [][NextLoad]_vars

\* modifications: None, or a map from top-level keys to replacement values
ModificationMaps ==
    {Absent} \cup
    {Given(Member("ConceptSets", cs) @@ Member("Notes", notes)) :
        cs \in {Absent, Given(JList(<<>>)), Given(JList(<<JObj([name |-> JStr("C")])>>))},
        notes \in {Absent, Given(JStr("n"))}}

CloneCohort ==
    /\ pc = "idle"
    /\ \E base_url \in BaseUrls,
          source_cohort_id \in 1..MaxCohorts,
          modifications \in ModificationMaps,
          new_description \in {"", "about"},
          scenario \in CloneScenarios,
          definition \in CohortDefinitions :
          LET service == [scenario |-> scenario, name |-> "source",
                          definition |-> definition]
              r == clone_cohort(base_url, source_cohort_id, "copy", modifications,
                                new_description, service)
          IN  /\ tool' = "clone_cohort"
              /\ args' = [source_cohort_id |-> source_cohort_id, new_name |-> "copy",
                          modifications |-> modifications,
                          new_description |-> new_description]
              /\ env' = [base_url |-> base_url, service |-> service]
              /\ result' = r.result
              /\ calls' = r.calls
    /\ pc' = "done"

NextClone == CloneCohort \/ Return

SpecClone == Init /\ [][NextClone]_vars

CompareCohorts ==
    /\ pc = "idle"
    /\ \E cohort_a \in CohortDefinitions, cohort_b \in CohortDefinitions :
          /\ tool' = "compare_cohorts"
          /\ args' = [cohort_a |-> cohort_a, cohort_b |-> cohort_b]
          /\ env' = NoArgs
          /\ result' = compare_cohorts(cohort_a, cohort_b)
          /\ calls' = <<>>
    /\ pc' = "done"

NextCompare == CompareCohorts \/ Return

SpecCompare == Init /\ [][NextCompare]_vars

\* limit: int = 20, and values around the bounds of the slice and of the cap
Limits == {-1, 0, 1, 2, 20, 100, 101}

SearchConcepts ==
    /\ pc = "idle"
    /\ \E base_url \in BaseUrls,
          query \in Terms,
          limit \in Limits,
          filters \in SearchFilters,
          answer \in [raises : BOOLEAN, found : 0..MaxFound] :
          LET r == search_concepts(base_url, query, limit, filters, answer)
          IN  /\ tool' = "search_concepts"
              /\ args' = [query |-> query, limit |-> limit, filters |-> filters]
              /\ env' = [base_url |-> base_url, answer |-> answer]
              /\ result' = r.result
              /\ calls' = r.calls
    /\ pc' = "done"

NextSearch == SearchConcepts \/ Return

SpecSearch == Init /\ [][NextSearch]_vars

DefinePrimaryCriteria ==
    /\ pc = "idle"
    /\ \E concept_set_id \in 0..MaxConceptId,
          domain \in DomainLabels,
          occurrence_type \in {Absent, Given("First"), Given("All"), Given("Last")},
          observation_window_prior \in -1..MaxDays,
          observation_window_post \in -1..MaxDays :
          /\ tool' = "define_primary_criteria"
          /\ args' = [concept_set_id |-> concept_set_id, domain |-> domain,
                      occurrence_type |-> occurrence_type,
                      observation_window_prior |-> observation_window_prior,
                      observation_window_post |-> observation_window_post]
          /\ env' = NoArgs
          /\ result' = define_primary_criteria(concept_set_id, domain,
                           occurrence_type, observation_window_prior,
                           observation_window_post)
          /\ calls' = <<>>
    /\ pc' = "done"

NextPrimaryCriteria == DefinePrimaryCriteria \/ Return

SpecPrimaryCriteria == Init /\ [][NextPrimaryCriteria]_vars

\* A request arrives: a surface, a tool name, the arguments that matter to the
\* prologue, and the environment of the process.
Requests ==
    [surface : Surfaces, has_selector : BOOLEAN, has_source_key : BOOLEAN]

Environments == [base_url : BaseUrls, source_key : {"", "cdm"}]

CallTool ==
    /\ pc = "idle"
    /\ \E request \in Requests, environment \in Environments :
         \E name \in NamesOn(request.surface) :
            /\ tool' = name
            /\ args' = request
            /\ env' = environment
    /\ result' = NoArgs
    /\ calls' = <<>>
    /\ pc' = "called"

\* The surface before the tool is called: handle_call_tool's else branch, the
\* dependency of an http_server.py route.
Dispatch ==
    /\ pc = "called"
    /\ IF args.surface = "mcp" /\ tool \notin McpTools
       THEN /\ result' = handle_call_tool(tool, Raised(UnknownTool(tool)))
            /\ pc' = "done"
       ELSE IF args.surface = "app" /\ get_webapi_config(env).status # 200
       THEN /\ result' = get_webapi_config(env)
            /\ pc' = "done"
       ELSE /\ result' = result
            /\ pc' = "entered"
    /\ UNCHANGED <<tool, args, env, calls>>

\* The tool up to client = WebApiClient(webapi_base_url).
Enter ==
    /\ pc = "entered"
    /\ LET error == Prologue(tool, args, env) IN
         IF error # <<>>
         THEN /\ result' = Raised(error)
              /\ calls' = calls
              /\ pc' = "returned"
         ELSE /\ result' = result
              /\ calls' = IF tool \in ClientTools
                          THEN <<Call("WebApiClient", env.base_url)>>
                          ELSE calls
              /\ pc' = "try"
    /\ UNCHANGED <<tool, args, env>>

\* One call on the client inside try: it returns something, returns nothing
\* (the tool returns its "not found" text), or raises.
RemoteCall ==
    /\ pc = "try"
    /\ tool \in ClientTools
    /\ Len(calls) <= MaxRemoteCalls
    /\ calls' = Append(calls, Call("remote", Len(calls)))
    /\ \E outcome \in {"value", "none", "raise"} :
         CASE outcome = "value" -> /\ result' = result
                                   /\ pc' = "try"
           [] outcome = "none" -> /\ result' = Text(<<"not found">>)
                                  /\ pc' = AfterBody(tool, outcome)
           [] OTHER -> /\ result' = OnException(tool, RemoteError)
                       /\ pc' = AfterBody(tool, outcome)
    /\ UNCHANGED <<tool, args, env>>

\* The rest of the body: the result is built and returned, or building it
\* raises (a schema-construction error, a value json.dumps cannot write).
\* search_concepts builds its result after the finally clause; the handle
\* calls and the outcome are the same in either order.
Complete ==
    /\ pc = "try"
    /\ \E outcome \in {"return", "raise"} :
         /\ result' = IF outcome = "return" THEN Text(<<"ok">>)
                      ELSE OnException(tool, LocalError)
         /\ pc' = AfterBody(tool, outcome)
    /\ UNCHANGED <<tool, args, env, calls>>

\* finally: client.close()
Finally ==
    /\ pc = "finally"
    /\ calls' = IF tool \in ClientTools THEN Append(calls, Call("close", 0))
                ELSE calls
    /\ pc' = "returned"
    /\ UNCHANGED <<tool, args, env, result>>

\* The surface hands over what the tool returned or raised.
Respond ==
    /\ pc = "returned"
    /\ result' = Response(args.surface, tool, result)
    /\ pc' = "done"
    /\ UNCHANGED <<tool, args, env, calls>>

NextInvocation ==
    \/ CallTool
    \/ Dispatch
    \/ Enter
    \/ RemoteCall
    \/ Complete
    \/ Finally
    \/ Respond
    \/ Return

SpecInvocation == Init /\ [][NextInvocation]_vars

\* MCP tools/list
ListTools ==
    /\ pc = "idle"
    /\ tool' = "list_tools"
    /\ args' = NoArgs
    /\ env' = NoArgs
    /\ result' = handle_list_tools
    /\ calls' = <<>>
    /\ pc' = "done"

NextCatalog == ListTools \/ NextInvocation

SpecCatalog == Init /\ [][NextCatalog]_vars

ExecutionIds == {"1", "2"}

CancelJob ==
    /\ pc = "idle"
    /\ \E base_url \in BaseUrls, execution_id \in ExecutionIds, service \in JobServices :
          LET r == cancel_job(base_url, execution_id, service)
          IN  /\ tool' = "cancel_job"
              /\ args' = [execution_id |-> execution_id]
              /\ env' = [base_url |-> base_url, service |-> service]
              /\ result' = r.result
              /\ calls' = r.calls
    /\ pc' = "done"

NextJobs == CancelJob \/ Return

SpecJobs == Init /\ [][NextJobs]_vars

\* occurrence_count: int = 1, and the values around it
OccurrenceCounts == 0..MaxOccurrences

AddInclusionRule ==
    /\ pc = "idle"
    /\ \E criteria_type \in {"ConditionOccurrence", "DrugExposure"},
          concept_set_id \in 0..MaxConceptId,
          start_window_start \in Offsets, start_window_end \in Offsets,
          end_window_start \in Offsets, end_window_end \in Offsets,
          occurrence_count \in OccurrenceCounts :
          /\ tool' = "add_inclusion_rule"
          /\ args' = [criteria_type |-> criteria_type,
                      concept_set_id |-> concept_set_id,
                      start_window_start |-> start_window_start,
                      start_window_end |-> start_window_end,
                      end_window_start |-> end_window_start,
                      end_window_end |-> end_window_end,
                      occurrence_count |-> occurrence_count]
          /\ result' = add_inclusion_rule("rule", criteria_type, concept_set_id, start_window_start, start_window_end, end_window_start, end_window_end, occurrence_count)
    /\ env' = NoArgs
    /\ calls' = <<>>
    /\ pc' = "done"

NextInclusionRule == AddInclusionRule \/ Return

SpecInclusionRule == Init /\ [][NextInclusionRule]_vars

(***************************************************************************)
(* Concurrent invocations of create_concept_set and clone_cohort, one step *)
(* of one invocation at a time. Here pc, tool, args, env and result hold   *)
(* one value per invocation and calls is the table of client handles.      *)
(***************************************************************************)
Procs == 1..MaxInvocations

\* The local variables of an invocation before its first step.
NoLocals == [client |-> 0, concepts |-> <<>>, value |-> NoArgs]

\* What the service answers for the concept ids, three ways.
SampleVocabs ==
    {[c \in ConceptIds |-> "found"],
     [c \in ConceptIds |-> IF c = 1 THEN "none" ELSE "found"],
     [c \in ConceptIds |-> IF c = 2 THEN "raise" ELSE "found"]}

SampleDefinition ==
    JObj(Member("ConceptSets", Given(JList(<<JObj([name |-> JStr("A")])>>))))

\* The invocations that run side by side.
ConcurrentJobs ==
    {[tool |-> "create_concept_set",
      args |-> [concept_ids |-> ids, include_descendants |-> TRUE,
                include_mapped |-> FALSE],
      env |-> [base_url |-> "http://webapi", vocab |-> vocab]] :
        ids \in {<<1>>, <<2, 1>>}, vocab \in SampleVocabs}
    \cup
    {[tool |-> "clone_cohort",
      args |-> [source_cohort_id |-> 1, new_name |-> "copy",
                modifications |-> Given(Member("ConceptSets", Given(JList(<<>>)))),
                new_description |-> ""],
      env |-> [base_url |-> "http://webapi",
               service |-> [scenario |-> scenario, name |-> "source",
                            definition |-> SampleDefinition]]] :
        scenario \in CloneScenarios}
    \cup
    {[tool |-> "create_concept_set",
      args |-> [concept_ids |-> <<1>>, include_descendants |-> TRUE,
                include_mapped |-> FALSE],
      env |-> [base_url |-> "", vocab |-> [c \in ConceptIds |-> "found"]]]}

InitConcurrent ==
    /\ pc = [p \in Procs |-> "idle"]
    /\ tool = [p \in Procs |-> "none"]
    /\ args = [p \in Procs |-> NoArgs]
    /\ env = [p \in Procs |-> NoArgs]
    /\ result = [p \in Procs |-> NoLocals]
    /\ calls = <<>>

\* A request arrives and its coroutine is created.
StartInvocation ==
    \E p \in Procs, job \in ConcurrentJobs :
        /\ pc[p] = "idle"
        /\ pc' = [pc EXCEPT ![p] = "called"]
        /\ tool' = [tool EXCEPT ![p] = job.tool]
        /\ args' = [args EXCEPT ![p] = job.args]
        /\ env' = [env EXCEPT ![p] = job.env]
        /\ UNCHANGED <<result, calls>>

\* The tool up to client = WebApiClient(webapi_base_url).
OpenClient ==
    \E p \in Procs :
        /\ pc[p] = "called"
        /\ IF env[p].base_url = ""
           THEN /\ result' = [result EXCEPT ![p].value =
                                 [kind |-> "raise", error |-> "ValueError: WEBAPI_BASE_URL"]]
                /\ calls' = calls
                /\ pc' = [pc EXCEPT ![p] = "done"]
           ELSE LET h == NewHandle(calls, p) IN
                /\ calls' = OpenHandle(calls, h, p)
                /\ result' = [result EXCEPT ![p].client = h]
                /\ pc' = [pc EXCEPT ![p] = IF tool[p] = "create_concept_set"
                                           THEN "lookup" ELSE "get"]
        /\ UNCHANGED <<tool, args, env>>

\* create_concept_set: one turn of the loop over concept_ids (lines 41-49).
LookupConcept ==
    \E p \in Procs :
        /\ pc[p] = "lookup"
        /\ Len(result[p].concepts) < Len(args[p].concept_ids)
        /\ LET concept_id == args[p].concept_ids[Len(result[p].concepts) + 1]
               h == result[p].client
               answer == Answered(calls, h, env[p].vocab[concept_id])
           IN  /\ calls' = CallOn(calls, h, p, Call("get_concept", concept_id))
               /\ CASE answer = "found" ->
                         /\ result' = [result EXCEPT ![p].concepts =
                                          Append(@, GetConcept(concept_id))]
                         /\ pc' = pc
                    [] answer = "none" ->
                         /\ result' = [result EXCEPT ![p].value =
                                          [kind |-> "not_found", id |-> concept_id]]
                         /\ pc' = [pc EXCEPT ![p] = "finally"]
                    [] OTHER ->
                         /\ result' = [result EXCEPT ![p].value =
                                          [kind |-> "error", id |-> concept_id]]
                         /\ pc' = [pc EXCEPT ![p] = "finally"]
        /\ UNCHANGED <<tool, args, env>>

\* create_concept_set: the concept set and the text are built (lines 51-91).
BuildConceptSet ==
    \E p \in Procs :
        /\ pc[p] = "lookup"
        /\ Len(result[p].concepts) = Len(args[p].concept_ids)
        /\ result' = [result EXCEPT ![p].value =
              [kind |-> "created",
               count |-> Len(result[p].concepts),
               items |-> [k \in 1..Len(result[p].concepts) |->
                            ConceptSetItem(result[p].concepts[k],
                                           args[p].include_descendants,
                                           args[p].include_mapped)]]]
        /\ pc' = [pc EXCEPT ![p] = "finally"]
        /\ UNCHANGED <<tool, args, env, calls>>

\* clone_cohort: source_cohort = await client.cohortdefs.get(...) (lines 334-336)
GetSource ==
    \E p \in Procs :
        /\ pc[p] = "get"
        /\ LET h == result[p].client
               answer == Answered(calls, h, env[p].service.scenario)
           IN  /\ calls' = CallOn(calls, h, p, Call("get", args[p].source_cohort_id))
               /\ CASE answer \in {"raise", "get_raise"} ->
                         /\ result' = [result EXCEPT ![p].value = [kind |-> "error"]]
                         /\ pc' = [pc EXCEPT ![p] = "finally"]
                    [] answer = "get_none" ->
                         /\ result' = [result EXCEPT ![p].value =
                                          [kind |-> "source_not_found"]]
                         /\ pc' = [pc EXCEPT ![p] = "finally"]
                    [] OTHER ->
                         /\ result' = result
                         /\ pc' = [pc EXCEPT ![p] = "get_definition"]
        /\ UNCHANGED <<tool, args, env>>

\* clone_cohort: source_definition = await client.cohortdefs.get_definition(...)
\* (lines 339-341)
GetDefinition ==
    \E p \in Procs :
        /\ pc[p] = "get_definition"
        /\ LET h == result[p].client
               answer == Answered(calls, h, env[p].service.scenario)
           IN  /\ calls' = CallOn(calls, h, p,
                                  Call("get_definition", args[p].source_cohort_id))
               /\ CASE answer \in {"raise", "def_raise"} ->
                         /\ result' = [result EXCEPT ![p].value = [kind |-> "error"]]
                         /\ pc' = [pc EXCEPT ![p] = "finally"]
                    [] answer = "def_none" \/ ~Truthy(env[p].service.definition) ->
                         /\ result' = [result EXCEPT ![p].value =
                                          [kind |-> "no_definition"]]
                         /\ pc' = [pc EXCEPT ![p] = "finally"]
                    [] OTHER ->
                         /\ result' = result
                         /\ pc' = [pc EXCEPT ![p] = "create"]
        /\ UNCHANGED <<tool, args, env>>

\* clone_cohort: the copy is made, modified and sent (lines 344-392).
CreateClone ==
    \E p \in Procs :
        /\ pc[p] = "create"
        /\ LET h == result[p].client
               answer == Answered(calls, h, env[p].service.scenario)
               source_cohort == [id |-> args[p].source_cohort_id,
                                 name |-> env[p].service.name]
               cloned_definition ==
                   ApplyModifications(CloneDefinition(env[p].service.definition),
                                      args[p].modifications)
               cohort_data == CloneCohortData(args[p].new_name, args[p].new_description,
                                              source_cohort, cloned_definition)
           IN  /\ calls' = CallOn(calls, h, p, Call("create", cohort_data))
               /\ IF answer \in {"raise", "create_raise"}
                  THEN result' = [result EXCEPT ![p].value = [kind |-> "error"]]
                  ELSE result' = [result EXCEPT ![p].value =
                          [kind |-> "cloned", name |-> cohort_data.name,
                           description |-> cohort_data.description,
                           modified |-> IF args[p].modifications.present
                                        THEN DOMAIN args[p].modifications.v ELSE {}]]
        /\ pc' = [pc EXCEPT ![p] = "finally"]
        /\ UNCHANGED <<tool, args, env>>

\* finally: client.close(), and the invocation returns.
CloseClient ==
    \E p \in Procs :
        /\ pc[p] = "finally"
        /\ calls' = CloseHandle(calls, result[p].client, p)
        /\ pc' = [pc EXCEPT ![p] = "done"]
        /\ UNCHANGED <<tool, args, env, result>>

NextConcurrent ==
    \/ StartInvocation
    \/ OpenClient
    \/ LookupConcept
    \/ BuildConceptSet
    \/ GetSource
    \/ GetDefinition
    \/ CreateClone
    \/ CloseClient

SpecConcurrent == InitConcurrent /\ [][NextConcurrent]_vars

Next ==
    \/ CreateConceptSet
    \/ CreateConceptSetFromSearch
    \/ ValidateCohortDefinition
    \/ LoadExistingCohort
    \/ CloneCohort
    \/ CompareCohorts
    \/ SearchConcepts
    \/ DefinePrimaryCriteria
    \/ CallTool
    \/ Dispatch
    \/ Enter
    \/ RemoteCall
    \/ Complete
    \/ Finally
    \/ Respond
    \/ ListTools
    \/ CancelJob
    \/ AddInclusionRule
    \/ Return

Spec == Init /\ [][Next]_vars

(***************************************************************************)
(* Properties: concept-set assembly                                        *)
(***************************************************************************)
ItemIds(items) == [k \in 1..Len(items) |-> items[k].CONCEPT_ID]

SearchCalls == SelectSeq(calls, LAMBDA c : c.op = "search")

\* create_concept_set ran with the service configured
RanCreate == pc = "done" /\ tool = "create_concept_set" /\ env.base_url # ""

Unresolved == {k \in 1..Len(args.concept_ids) : env.vocab[args.concept_ids[k]] # "found"}

FirstUnresolved == CHOOSE k \in Unresolved : \A j \in Unresolved : k <= j

\* C1: create_concept_set - when every id resolves the concept set holds
\* exactly the input ids, in order and none dropped; when some id does not
\* resolve (nothing returned, or the lookup raises) the result is one failure
\* message about the first such id and carries no concept set.
C1_AssemblyFromIds ==
    RanCreate =>
        IF Unresolved = {}
        THEN /\ result.kind = "created"
             /\ ItemIds(result.items) = args.concept_ids
             /\ result.count = Len(args.concept_ids)
        ELSE /\ result.kind =
                  (IF env.vocab[args.concept_ids[FirstUnresolved]] = "none"
                   THEN "not_found" ELSE "error")
             /\ result.id = args.concept_ids[FirstUnresolved]
             /\ "items" \notin DOMAIN result

\* Witness of C1: ids resolved before one that the service does not know.
C1_Witness ==
    /\ RanCreate
    /\ Unresolved # {}
    /\ FirstUnresolved > 1
    /\ env.vocab[args.concept_ids[FirstUnresolved]] = "none"
    /\ result.kind = "not_found"

\* create_concept_set_from_search ran with the service configured
RanSearch ==
    pc = "done" /\ tool = "create_concept_set_from_search" /\ env.base_url # ""

Raising == {k \in 1..Len(args.search_queries) : env.search[args.search_queries[k]].raises}

\* ids returned by the per-term searches, in the order of the terms
ReturnedIds ==
    Concat([k \in 1..Len(args.search_queries) |->
               env.search[args.search_queries[k]].hits])

\* the same, each answer cut to its first max_concepts_per_query hits
CappedIds ==
    Concat([k \in 1..Len(args.search_queries) |->
               PyPrefix(env.search[args.search_queries[k]].hits,
                        args.max_concepts_per_query)])

FirstIndex(s, x) == CHOOSE i \in 1..Len(s) : s[i] = x /\ \A j \in 1..(i - 1) : s[j] # x

\* out lists every element of s exactly once, in the order of first occurrence
IsFirstSeenOrder(out, s) ==
    /\ Range(out) = Range(s)
    /\ \A i, j \in 1..Len(out) :
          i < j => out[i] # out[j] /\ FirstIndex(s, out[i]) < FirstIndex(s, out[j])

\* C2 as stated: the concept set holds every distinct id returned by any
\* per-term search, once each, in first-seen order.
C2_Original ==
    (RanSearch /\ Raising = {}) =>
        result.kind = "created" /\ IsFirstSeenOrder(ItemIds(result.items), ReturnedIds)

\* C2 amended: when every per-term search returns, the concept set holds every
\* distinct id among the first max_concepts_per_query hits of each search, once
\* each, in first-seen order; hits beyond the cap are left out.
C2_CappedFirstSeen ==
    (RanSearch /\ Raising = {}) =>
        /\ result.kind = "created"
        /\ IsFirstSeenOrder(ItemIds(result.items), CappedIds)
        /\ result.count = Cardinality(Range(CappedIds))

\* Witness of C2: an id comes back again after another id was seen, and the
\* cap cuts an answer.
C2_Witness ==
    /\ RanSearch /\ Raising = {}
    /\ Len(result.items) >= 2
    /\ Len(CappedIds) < Len(ReturnedIds)
    /\ Len(result.items) < Len(CappedIds)
    /\ \E i, k, j \in 1..Len(CappedIds) :
          i < k /\ k < j /\ CappedIds[i] = CappedIds[j] /\ CappedIds[k] # CappedIds[i]

\* C3 as stated: a failing search never aborts the batch - every term is
\* searched and a concept set is produced.
C3_Original ==
    RanSearch =>
        result.kind = "created" /\ Len(SearchCalls) = Len(args.search_queries)

FirstRaising == CHOOSE k \in Raising : \A j \in Raising : k <= j

\* C3 amended: the first search that raises aborts the batch - the terms after
\* it are not searched and the result is one error message without a concept
\* set; a search that returns no hits does not abort, and when no search raises
\* every term is searched and a concept set is produced.
C3_FailureAborts ==
    RanSearch =>
        IF Raising # {}
        THEN /\ result.kind = "error"
             /\ "items" \notin DOMAIN result
             /\ SearchCalls = [k \in 1..FirstRaising |->
                                 [op |-> "search", arg |-> args.search_queries[k]]]
        ELSE /\ result.kind = "created"
             /\ Len(SearchCalls) = Len(args.search_queries)
             /\ Len(result.search_summary) = Len(args.search_queries)

\* Witness of C3: the second of three searches raises after the first found
\* concepts.
C3_Witness ==
    /\ RanSearch
    /\ Len(args.search_queries) = 3
    /\ Raising # {} /\ FirstRaising = 2
    /\ env.search[args.search_queries[1]].hits # <<>>
    /\ args.max_concepts_per_query > 0
    /\ result.kind = "error"

(***************************************************************************)
(* Properties: cohort validation                                           *)
(***************************************************************************)
RanValidate == pc = "done" /\ tool = "validate_cohort_definition"

Cohort == args.cohort_definition

IsReport == RanValidate /\ result.kind = "report"

\* C4: validate_cohort_definition - a cohort expression without primary
\* criteria never validates as PASSED: the result is a report with at least one
\* error (the missing-primary-criteria error among them) or, when the schema
\* rejects the expression, the single "Validation failed with error" message.
C4_MissingPrimaryCriteriaIsError ==
    (RanValidate /\ ~Cohort.PrimaryCriteria.present) =>
        \/ result.kind = "failed" /\ env.schema = "raise"
        \/ /\ result.kind = "report"
           /\ ~result.passed
           /\ Len(result.errors) >= 1
           /\ Msg("missing_primary_criteria", 0) \in Range(result.errors)

\* Witness of C4: nothing else is wrong with the expression, and the report
\* carries exactly the one error.
C4_Witness ==
    /\ IsReport
    /\ ~Cohort.PrimaryCriteria.present
    /\ Len(Cohort.ConceptSets) >= 1
    /\ Len(Cohort.InclusionRules) >= 1
    /\ result.errors = <<Msg("missing_primary_criteria", 0)>>
    /\ result.warnings = <<>>

\* the sections are there: primary criteria with a criteria list and an
\* observation window, at least one concept set, each with an expression, and
\* an expression in every inclusion rule
SectionsPresent ==
    /\ env.schema = "ok"
    /\ Cohort.PrimaryCriteria.present
    /\ Cohort.PrimaryCriteria.CriteriaList > 0
    /\ Cohort.PrimaryCriteria.ObservationWindow.present
    /\ Cohort.ConceptSets # <<>>
    /\ \A i \in 1..Len(Cohort.ConceptSets) : Cohort.ConceptSets[i].expression.present
    /\ \A i \in 1..Len(Cohort.InclusionRules) : Cohort.InclusionRules[i].expression

NoSmell ==
    /\ \A i \in 1..Len(Cohort.ConceptSets) :
          Cohort.ConceptSets[i].expression.items <= BroadConceptSetSize
    /\ Cohort.PrimaryCriteria.ObservationWindow.PriorDays <= LongPriorDays
    /\ \A i \in 1..Len(Cohort.InclusionRules) : Cohort.InclusionRules[i].name # ""

\* C5 as stated: sections present, no concept set above 100 concepts, at most
\* 365 prior days, every rule named => zero errors and zero warnings.
C5_Original ==
    (RanValidate /\ SectionsPresent /\ NoSmell) =>
        result.kind = "report" /\ result.errors = <<>> /\ result.warnings = <<>>

\* C5 amended: as stated, with every concept set holding between 1 and 100
\* concepts - a concept set without concepts is an error.
C5_CleanCohortPasses ==
    (/\ RanValidate /\ SectionsPresent /\ NoSmell
     /\ \A i \in 1..Len(Cohort.ConceptSets) : Cohort.ConceptSets[i].expression.items >= 1) =>
        /\ result.kind = "report"
        /\ result.errors = <<>> /\ result.warnings = <<>>
        /\ result.passed

\* Witness of C5: a passing cohort at both thresholds, with concept sets and
\* inclusion rules.
C5_Witness ==
    /\ IsReport /\ result.passed
    /\ SectionsPresent /\ NoSmell
    /\ Cohort.PrimaryCriteria.ObservationWindow.PriorDays = LongPriorDays
    /\ \E i \in 1..Len(Cohort.ConceptSets) :
          Cohort.ConceptSets[i].expression.items = BroadConceptSetSize
    /\ Len(Cohort.InclusionRules) >= 1

\* What each check finds on its own, whatever the others find.
ExpectedErrors ==
    (IF ~Cohort.PrimaryCriteria.present THEN {Msg("missing_primary_criteria", 0)} ELSE {})
    \cup {Msg("concept_set_empty", i) : i \in
            {j \in 1..Len(Cohort.ConceptSets) :
                \/ ~Cohort.ConceptSets[j].expression.present
                \/ Cohort.ConceptSets[j].expression.items = 0}}
    \cup (IF Cohort.PrimaryCriteria.present /\ Cohort.PrimaryCriteria.CriteriaList = 0
          THEN {Msg("empty_criteria_list", 0)} ELSE {})
    \cup {Msg("rule_without_expression", i) : i \in
            {j \in 1..Len(Cohort.InclusionRules) : ~Cohort.InclusionRules[j].expression}}

ExpectedWarnings ==
    (IF Cohort.ConceptSets = <<>> THEN {Msg("no_concept_sets", 0)} ELSE {})
    \cup {Msg("concept_set_broad", i) : i \in
            {j \in 1..Len(Cohort.ConceptSets) :
                /\ Cohort.ConceptSets[j].expression.present
                /\ Cohort.ConceptSets[j].expression.items > BroadConceptSetSize}}
    \cup (IF /\ Cohort.PrimaryCriteria.present
             /\ Cohort.PrimaryCriteria.ObservationWindow.present
             /\ Cohort.PrimaryCriteria.ObservationWindow.PriorDays > LongPriorDays
          THEN {Msg("long_prior_observation", 0)} ELSE {})
    \cup {Msg("rule_without_name", i) : i \in
            {j \in 1..Len(Cohort.InclusionRules) : Cohort.InclusionRules[j].name = ""}}

Accumulated ==
    /\ Range(result.errors) = ExpectedErrors
    /\ Len(result.errors) = Cardinality(ExpectedErrors)
    /\ Range(result.warnings) = ExpectedWarnings
    /\ Len(result.warnings) = Cardinality(ExpectedWarnings)

LoadedByName ==
    /\ pc = "done" /\ tool = "load_existing_cohort"
    /\ env.base_url # ""
    /\ args.cohort_id = 0 /\ args.cohort_name # <<>>
    /\ ~env.service.list_raises

Stored == StoredCohorts(env.service.names)

ExactMatches == {i \in 1..Len(Stored) : Lower(Stored[i].name) = Lower(args.cohort_name)}

SubstringMatches ==
    {i \in 1..Len(Stored) : Contains(Lower(args.cohort_name), Lower(Stored[i].name))}

DefinitionFetches == SelectSeq(calls, LAMBDA c : c.op = "get_definition")

\* C7 as stated: whenever some stored cohort matches the name exactly
\* (case-insensitively), a single cohort with that name is loaded.
C7_Original ==
    (LoadedByName /\ ExactMatches # {} /\ env.service.definition # "raise") =>
        result.kind = "loaded" /\ result.cohort.id \in ExactMatches

\* C7 amended: whenever exactly one stored cohort matches the name exactly
\* (case-insensitively), that cohort is the one chosen, whatever other cohorts
\* exist or contain the name: its definition is the only one fetched and it is
\* the cohort loaded (an error message if that fetch fails).
C7_UniqueExactMatchLoads ==
    (LoadedByName /\ Cardinality(ExactMatches) = 1) =>
        LET c == Stored[CHOOSE i \in ExactMatches : TRUE] IN
        /\ DefinitionFetches = <<Call("get_definition", c.id)>>
        /\ IF env.service.definition = "raise"
           THEN result.kind = "error"
           ELSE result.kind = "loaded" /\ result.cohort = c

\* Witness of C7: the exact match differs in case and another cohort contains
\* the name.
C7_Witness ==
    /\ LoadedByName
    /\ Cardinality(ExactMatches) = 1
    /\ Cardinality(SubstringMatches) > 1
    /\ result.kind = "loaded"
    /\ result.cohort.name # args.cohort_name

\* C8: load_existing_cohort by name - without an exact match and with more than
\* one cohort name containing the requested name, the result is the listing of
\* those matches; no cohort is picked and no definition is fetched.
C8_AmbiguousNameIsListed ==
    (LoadedByName /\ ExactMatches = {} /\ Cardinality(SubstringMatches) > 1) =>
        /\ result.kind = "ambiguous"
        /\ Range(result.listing) = SubstringMatches
        /\ "cohort" \notin DOMAIN result
        /\ DefinitionFetches = <<>>
        /\ calls = <<Call("list", 0), Call("close", 0)>>

\* Witness of C8: two cohorts contain the name, neither equals it.
C8_Witness ==
    /\ LoadedByName
    /\ ExactMatches = {}
    /\ Cardinality(SubstringMatches) = 2
    /\ result.kind = "ambiguous"
    /\ Len(result.listing) = 2

(***************************************************************************)
(* Properties: cloning a cohort                                            *)
(***************************************************************************)
RanClone == pc = "done" /\ tool = "clone_cohort" /\ env.base_url # ""

CreateCalls == SelectSeq(calls, LAMBDA c : c.op = "create")

NoModifications ==
    ~args.modifications.present \/ DOMAIN args.modifications.v = {}

\* C9: clone_cohort with an empty or absent modifications map - the expression
\* sent to the service for the new cohort equals the source cohort's
\* definition; the envelope carries the new name, the new description (or
\* "Clone of <source name>") and the fixed expression type.
C9_ExactClone ==
    (RanClone /\ NoModifications) =>
        /\ Len(CreateCalls) <= 1
        /\ \A i \in 1..Len(CreateCalls) :
              /\ CreateCalls[i].arg.expression = env.service.definition
              /\ CreateCalls[i].arg.name = args.new_name
              /\ CreateCalls[i].arg.expressionType = "SIMPLE_EXPRESSION"
        /\ result.kind = "cloned" => Len(CreateCalls) = 1

\* Witness of C9: a definition with nested members and an empty list was
\* cloned with an empty map.
C9_Witness ==
    /\ RanClone
    /\ args.modifications.present /\ DOMAIN args.modifications.v = {}
    /\ result.kind = "cloned"
    /\ DOMAIN env.service.definition.v = {"ConceptSets", "InclusionRules", "PrimaryCriteria"}
    /\ env.service.definition.v["InclusionRules"] = JList(<<>>)
    /\ \E i \in 1..Len(env.service.definition.v["ConceptSets"].v) :
          "expression" \in DOMAIN env.service.definition.v["ConceptSets"].v[i].v
    /\ Len(CreateCalls) = 1

(***************************************************************************)
(* Properties: comparing cohorts                                           *)
(***************************************************************************)
RanCompare == pc = "done" /\ tool = "compare_cohorts"

\* C10: compare_cohorts - comparing a cohort definition with itself gives a
\* structural similarity of 100% and empty "only in A" / "only in B" sets for
\* concept-set names and inclusion-rule names.
C10_SelfComparison ==
    (RanCompare /\ args.cohort_a = args.cohort_b) =>
        /\ result.similarity_pct = 100
        /\ result.only_a = {} /\ result.only_b = {}
        /\ result.only_a_rules = {} /\ result.only_b_rules = {}

(***************************************************************************)
(* Properties: the life of an invocation                                   *)
(***************************************************************************)
Acquisitions == SelectSeq(calls, LAMBDA c : c.op = "WebApiClient")

Releases == SelectSeq(calls, LAMBDA c : c.op = "close")

\* the tool function has returned or raised
ToolEnded == pc \in {"returned", "done"}

\* C11: every invocation that builds a client handle closes it exactly once
\* before the invocation ends, whichever way the body is left (result, "not
\* found" result, exception of a remote call), and nothing is called on the
\* handle after it was closed; an invocation that builds no handle closes none.
C11_HandleReleasedOnce ==
    /\ Len(Acquisitions) <= 1
    /\ Len(Releases) <= Len(Acquisitions)
    /\ (ToolEnded => Len(Releases) = Len(Acquisitions))
    /\ (Releases # <<>> => calls[Len(calls)].op = "close" /\ calls[1].op = "WebApiClient")

\* Witness of C11: a remote call raised, the exception left the tool, and the
\* handle was closed on the way out.
C11_Witness ==
    /\ pc = "returned"
    /\ result = Raised(RemoteError)
    /\ Len(Acquisitions) = 1
    /\ Len(Releases) = 1
    /\ Len(calls) = 3

ViaMcp == pc \in {"called", "entered", "try", "finally", "returned"} /\ args.surface = "mcp"

AnsweredUnconfigured ==
    /\ pc = "done"
    /\ args.surface \in {"app", "router"}
    /\ tool \in ClientTools
    /\ env.base_url = ""

\* C13 as stated: with WEBAPI_BASE_URL unset every request to a route that
\* uses the service gets status 500 with a detail naming WEBAPI_BASE_URL, and
\* the service is not called.
C13_Original ==
    AnsweredUnconfigured =>
        /\ result.status = 500
        /\ result.detail = ConfigError
        /\ calls = <<>>

\* C13 amended: with WEBAPI_BASE_URL unset every request to a route that uses
\* the service gets status 500 and the service is not called; the detail names
\* WEBAPI_BASE_URL, except for a load request with neither id nor name on a
\* route of routes/, whose detail is the argument error.
C13_MissingBaseUrlIs500 ==
    AnsweredUnconfigured =>
        /\ result.status = 500
        /\ calls = <<>>
        /\ result.detail =
             (IF /\ args.surface = "router"
                 /\ tool = "load_existing_cohort"
                 /\ ~args.has_selector
              THEN SelectorError ELSE ConfigError)

\* Witness of C13: a route of routes/ answered from the ValueError of the tool.
C13_Witness ==
    /\ AnsweredUnconfigured
    /\ args.surface = "router"
    /\ tool = "get_job_status"
    /\ result = [status |-> 500, detail |-> ConfigError]

\* C14: a tool function raises only for missing required input (the base URL,
\* the source key, the cohort selector); every other failure comes back as a
\* text result.
C14_OnlyConfigurationRaises ==
    (pc = "returned" /\ result.kind = "raise") =>
        result.error \in {ConfigError, SourceKeyError, SelectorError}

ViaHttp == pc = "returned" /\ args.surface \in {"app", "router"}

\* C17: a route answers a tool call that returned with status 200 and the
\* envelope {status: "success", data: result}, and a tool call that raised with
\* status 500 and the message of the exception as detail.
C17_UniformEnvelope ==
    [][(ViaHttp /\ pc' = "done") =>
          IF result.kind = "raise"
          THEN result' = [status |-> 500, detail |-> result.error]
          ELSE result' = [status |-> 200,
                          body |-> [status |-> "success", data |-> result]]]_vars

\* Witness of C17: a route answered 500 with the message of a failed remote
\* call.
C17_Witness ==
    /\ pc = "done"
    /\ args.surface = "app"
    /\ tool = "search_concepts"
    /\ result = [status |-> 500, detail |-> RemoteError]

(***************************************************************************)
(* Properties: search_concepts                                             *)
(***************************************************************************)
\* search_concepts ran, the search returned and found something
FoundSome ==
    /\ pc = "done" /\ tool = "search_concepts"
    /\ env.base_url # "" /\ ~env.answer.raises /\ env.answer.found >= 1

\* the ids of the concept blocks after the header
BlockIds == [k \in 1..(Len(result.items) - 1) |-> result.items[k + 1].concept_id]

\* C15 as stated: k >= 1 concepts found give a header "Found k concepts" and
\* exactly k concept blocks.
C15_Original ==
    FoundSome =>
        /\ result.kind = "found"
        /\ result.items[1].text = "Found" /\ result.items[1].count = env.answer.found
        /\ Len(result.items) = env.answer.found + 1

\* C15 amended: k >= 1 concepts found give a header "Found k concepts" and one
\* block for each of the first `limit` concepts, in order: exactly k blocks
\* when limit >= k, limit blocks when 0 <= limit < k (all but the last -limit
\* when limit < 0).
C15_HeaderAndShownBlocks ==
    FoundSome =>
        LET k == env.answer.found
            limit == args.limit
            shown == IF limit >= k THEN k
                     ELSE IF limit >= 0 THEN limit
                     ELSE IF k + limit > 0 THEN k + limit ELSE 0
        IN  /\ result.kind = "found"
            /\ result.items[1].text = "Found" /\ result.items[1].count = k
            /\ BlockIds = [p \in 1..shown |-> p]

\* Witness of C15: three concepts found under a limit of two.
C15_Witness ==
    /\ FoundSome
    /\ env.answer.found = 3 /\ args.limit = 2
    /\ result.items[1].count = 3
    /\ Len(result.items) = 3

(***************************************************************************)
(* Properties: define_primary_criteria                                     *)
(***************************************************************************)
RanDefine == pc = "done" /\ tool = "define_primary_criteria"

\* the synonym table: label -> criteria type
Synonyms ==
    [ConditionOccurrence |-> "ConditionOccurrence", Condition |-> "ConditionOccurrence",
     DrugExposure |-> "DrugExposure", Drug |-> "DrugExposure",
     ProcedureOccurrence |-> "ProcedureOccurrence", Procedure |-> "ProcedureOccurrence",
     Measurement |-> "Measurement", Observation |-> "Observation",
     DeviceExposure |-> "DeviceExposure", Device |-> "DeviceExposure"]

\* C16: a label of the synonym table gives a criteria object with one entry,
\* keyed by the criteria type of the label and carrying the given CodesetId,
\* with limit type "First" unless another is given; any other label gives an
\* "Unsupported domain" result without criteria.
C16_SynonymTable ==
    RanDefine =>
        IF args.domain \in DOMAIN Synonyms
        THEN /\ result.kind = "criteria"
             /\ Len(result.primary_criteria.CriteriaList) = 1
             /\ result.primary_criteria.CriteriaList[1].key = Synonyms[args.domain]
             /\ result.primary_criteria.CriteriaList[1].value.CodesetId = args.concept_set_id
             /\ result.primary_criteria.PrimaryCriteriaLimit.Type =
                  (IF args.occurrence_type.present THEN args.occurrence_type.v
                   ELSE "First")
        ELSE /\ result.kind = "unsupported"
             /\ "primary_criteria" \notin DOMAIN result

\* Witness of C16: the short label "Condition", no occurrence type given.
C16_Witness ==
    /\ RanDefine
    /\ args.domain = "Condition"
    /\ ~args.occurrence_type.present
    /\ result.kind = "criteria"
    /\ result.primary_criteria.CriteriaList[1].key = "ConditionOccurrence"
    /\ result.primary_criteria.PrimaryCriteriaLimit.Type = "First"

(***************************************************************************)
(* Properties: concept-set assembly, duplicates and empty input            *)
(***************************************************************************)
\* C18: create_concept_set_from_search with an empty list of queries does not
\* answer with a plain report of a created concept set.
C18_EmptyQueriesFlagged ==
    (RanSearch /\ args.search_queries = <<>>) => result.kind # "created"

\* the concept objects the searches returned, each answer cut to the cap
CappedHits ==
    Concat([k \in 1..Len(args.search_queries) |->
               PyPrefix(HitObjects(k, env.search[args.search_queries[k]].hits),
                        args.max_concepts_per_query)])

Occurrences(id) == {i \in 1..Len(CappedHits) : CappedHits[i].concept_id = id}

FirstOccurrence(id) == CHOOSE i \in Occurrences(id) : \A j \in Occurrences(id) : i <= j

LastOccurrence(id) == CHOOSE i \in Occurrences(id) : \A j \in Occurrences(id) : j <= i

C20_NoDuplicateIds ==
    ((RanCreate \/ RanSearch) /\ result.kind = "created") =>
        \A i, j \in 1..Len(result.items) :
            i # j => result.items[i].CONCEPT_ID # result.items[j].CONCEPT_ID

(***************************************************************************)
(* Properties: cloning with modifications                                  *)
(***************************************************************************)
\* clone_cohort created the clone from a non-empty modifications map
ClonedWithModifications ==
    RanClone /\ result.kind = "cloned" /\ ~NoModifications

SavedExpression == CreateCalls[1].arg.expression

SourceFound ==
    /\ env.service.scenario \in {"ok", "create_raise"}
    /\ env.service.definition # JObj(EmptyDict)

\* C28: clone_cohort sends the create request only after the source cohort and
\* then its definition were fetched and found; when either is missing or its
\* fetch raises, no create request is sent and the result is a text saying so.
C28_CreateAfterFetches ==
    RanClone =>
        /\ (CreateCalls # <<>> =>
              /\ SourceFound
              /\ [k \in 1..3 |-> calls[k].op] = <<"get", "get_definition", "create">>
              /\ Len(CreateCalls) = 1)
        /\ (~SourceFound =>
              /\ CreateCalls = <<>>
              /\ result.kind =
                   (CASE env.service.scenario = "get_none" -> "source_not_found"
                      [] env.service.scenario \in {"get_raise", "def_raise"} -> "error"
                      [] OTHER -> "no_definition"))
        /\ (SourceFound => Len(CreateCalls) = 1)

\* Witness of C28: the source cohort exists but its definition is empty.
C28_Witness ==
    /\ RanClone
    /\ env.service.scenario = "ok"
    /\ env.service.definition = JObj(EmptyDict)
    /\ result.kind = "no_definition"
    /\ [k \in 1..Len(calls) |-> calls[k].op] = <<"get", "get_definition", "close">>

(***************************************************************************)
(* Properties: the search call of search_concepts                          *)
(***************************************************************************)
RanSearchConcepts == pc = "done" /\ tool = "search_concepts" /\ env.base_url # ""

\* C22: a configured search_concepts invocation makes exactly one search call,
\* whatever it answers (concepts, nothing, an exception), with page size
\* min(limit, 100).
C22_SingleCappedSearch ==
    RanSearchConcepts =>
        /\ Len(SearchCalls) = 1
        /\ SearchCalls[1].arg.page_size = (IF args.limit < 100 THEN args.limit ELSE 100)
        /\ SearchCalls[1].arg.query = args.query
        /\ [k \in 1..Len(calls) |-> calls[k].op] = <<"search", "close">>

\* Witness of C22: a limit above the cap, and a search that raised.
C22_Witness ==
    /\ RanSearchConcepts
    /\ args.limit = 101
    /\ env.answer.raises
    /\ SearchCalls[1].arg.page_size = 100

(***************************************************************************)
(* Properties: symmetry of compare_cohorts                                 *)
(***************************************************************************)
\* the same two definitions, compared the other way round
Swapped == compare_cohorts(args.cohort_b, args.cohort_a)

\* C30: compare_cohorts is symmetric - compare(a, b) and compare(b, a) give
\* the same similarity score and the same common sets, the names "only in A"
\* of (a, b) are the names "only in B" of (b, a), and the score is one of
\* 0, 25, 50, 75, 100.
C30_Symmetric ==
    RanCompare =>
        /\ result.similarity_pct = Swapped.similarity_pct
        /\ result.verdict = Swapped.verdict
        /\ result.common = Swapped.common
        /\ result.common_rules = Swapped.common_rules
        /\ result.only_a = Swapped.only_b
        /\ result.only_b = Swapped.only_a
        /\ result.only_a_rules = Swapped.only_b_rules
        /\ result.only_b_rules = Swapped.only_a_rules
        /\ result.similarity_pct \in {0, 25, 50, 75, 100}

\* Witness of C30: two different definitions that share a concept-set name,
\* where one has a rule the other lacks.
C30_Witness ==
    /\ RanCompare
    /\ args.cohort_a # args.cohort_b
    /\ result.common # {}
    /\ result.only_a_rules # {}
    /\ result.only_b_rules = {}
    /\ result.similarity_pct = 75

(***************************************************************************)
(* Properties: the primary criteria object                                 *)
(***************************************************************************)
\* C25: every primary-criteria object define_primary_criteria produces has an
\* observation window with non-negative prior and post days and an
\* occurrence-limit type that is "First" or "All".
C25_WellFormedCriteria ==
    (RanDefine /\ result.kind = "criteria") =>
        /\ result.primary_criteria.ObservationWindow.PriorDays >= 0
        /\ result.primary_criteria.ObservationWindow.PostDays >= 0
        /\ result.primary_criteria.PrimaryCriteriaLimit.Type \in {"First", "All"}

(***************************************************************************)
(* Properties: the tool catalog                                            *)
(***************************************************************************)
Listed == pc = "done" /\ tool = "list_tools"

\* the text handle_call_tool answers for a name it does not dispatch
UnknownToolText(name) == Text(<<"Error executing ", name, ": ">> \o UnknownTool(name))

\* C29: the tool catalog is consistent - the names handle_list_tools
\* advertises are the names handle_call_tool dispatches to a tool function:
\* no advertised name ends in the "Unknown tool" branch and no dispatched
\* name is unadvertised.
C29_CatalogConsistent ==
    /\ Listed =>
         /\ \A name \in result.names : name \in McpTools
         /\ \A name \in McpTools : name \in result.names
    /\ (pc = "done" /\ tool # "list_tools" /\ args.surface = "mcp") =>
         /\ (tool \in ListedTools => result # UnknownToolText(tool))
         /\ (tool \notin ListedTools => result = UnknownToolText(tool))

\* Witness of C29: the list was asked for and holds the sixteen tools.
C29_Witness ==
    /\ Listed
    /\ Cardinality(result.names) = 16
    /\ {"search_concepts", "clone_cohort", "add_inclusion_rule"} \subseteq result.names
    /\ "cancel_job" \notin result.names

(***************************************************************************)
(* Properties: cancel_job                                                  *)
(***************************************************************************)
RanCancel == pc = "done" /\ tool = "cancel_job" /\ env.base_url # ""

CancelCalls == SelectSeq(calls, LAMBDA c : c.op = "cancel")

TerminalStatuses == {"COMPLETED", "FAILED", "CANCELED"}

\* C27: cancel_job sends the cancel request only after a status check of the
\* same invocation returned an existing job whose status is none of COMPLETED,
\* FAILED, CANCELED; for a missing job or a job seen in one of these states no
\* cancel request is sent.
C27_CancelAfterStatusCheck ==
    RanCancel =>
        /\ (CancelCalls # <<>> =>
              /\ Len(CancelCalls) = 1
              /\ [k \in 1..2 |-> calls[k]] =
                    <<Call("status", args.execution_id), Call("cancel", args.execution_id)>>
              /\ env.service.status.kind \in {"job", "no_status"}
              /\ env.service.status.status \notin TerminalStatuses)
        /\ ((\/ env.service.status.kind = "none"
             \/ (env.service.status.kind = "job"
                 /\ env.service.status.status \in TerminalStatuses)) =>
              CancelCalls = <<>>)

\* Witness of C27: the job was seen canceled and no cancel request went out.
C27_Witness ==
    /\ RanCancel
    /\ env.service.has_cancel
    /\ env.service.status = [kind |-> "job", status |-> "CANCELED"]
    /\ result.kind = "already"
    /\ [k \in 1..Len(calls) |-> calls[k].op] = <<"status", "close">>

(***************************************************************************)
(* Properties: inclusion rules                                             *)
(***************************************************************************)
RanAddRule == pc = "done" /\ tool = "add_inclusion_rule"

RuleExpression == result.inclusion_rule.expression

\* the sign the caller's offset asks for: -1 for a negative offset, +1 for
\* zero, a positive offset or none
SignOf(offset) == IF offset.present /\ offset.v < 0 THEN -1 ELSE 1

\* C23: add_inclusion_rule - in every time window it builds, the sign
\* coefficient of an endpoint is -1 exactly when the caller's offset for that
\* endpoint is negative, and +1 otherwise (zero or unset offset).
C23_SignCoefficient ==
    RanAddRule =>
        /\ (RuleExpression.StartWindow.present =>
              /\ RuleExpression.StartWindow.v.Start.Coeff = SignOf(args.start_window_start)
              /\ RuleExpression.StartWindow.v.End.Coeff = SignOf(args.start_window_end))
        /\ (RuleExpression.EndWindow.present =>
              /\ RuleExpression.EndWindow.v.Start.Coeff = SignOf(args.end_window_start)
              /\ RuleExpression.EndWindow.v.End.Coeff = SignOf(args.end_window_end))
        /\ (RuleExpression.StartWindow.present <=>
              (args.start_window_start.present \/ args.start_window_end.present))
        /\ (RuleExpression.EndWindow.present <=>
              (args.end_window_start.present \/ args.end_window_end.present))

\* Witness of C23: a start window from a negative offset to an unset one, and
\* an end window from zero to a positive offset.
C23_Witness ==
    /\ RanAddRule
    /\ args.start_window_start = Given(-1) /\ ~args.start_window_end.present
    /\ args.end_window_start = Given(0) /\ args.end_window_end = Given(1)
    /\ RuleExpression.StartWindow.v.Start = [Days |-> -1, Coeff |-> -1]
    /\ RuleExpression.StartWindow.v.End = [Days |-> 0, Coeff |-> 1]
    /\ RuleExpression.EndWindow.v.Start = [Days |-> 0, Coeff |-> 1]

\* C24: add_inclusion_rule - the criteria item carries an OccurrenceCount
\* field exactly when the requested count is greater than one, and then with
\* the requested value; for a count of one the field is absent.
C24_OccurrenceCountAboveOne ==
    RanAddRule =>
        LET item == RuleExpression.CriteriaList[1].value IN
        /\ Len(RuleExpression.CriteriaList) = 1
        /\ (item.OccurrenceCount.present <=> args.occurrence_count > 1)
        /\ (item.OccurrenceCount.present => item.OccurrenceCount.v = args.occurrence_count)
        /\ (args.occurrence_count = 1 => ~item.OccurrenceCount.present)

\* Witness of C24: a rule asking for two occurrences.
C24_Witness ==
    /\ RanAddRule
    /\ args.occurrence_count = 2
    /\ RuleExpression.CriteriaList[1].value.OccurrenceCount = Given(2)

(***************************************************************************)
(* Properties: concurrent invocations                                      *)
(***************************************************************************)
\* what invocation p gives when it runs alone against the same answers
Alone(p) ==
    IF tool[p] = "create_concept_set"
    THEN create_concept_set(env[p].base_url, args[p].concept_ids, args[p].include_descendants, args[p].include_mapped, env[p].vocab)
    ELSE clone_cohort(env[p].base_url, args[p].source_cohort_id, args[p].new_name, args[p].modifications, args[p].new_description, env[p].service)

\* C26: under any interleaving of concurrently running invocations, each
\* invocation creates its own client handle, uses and closes only that
\* handle, and its result is the result it gives running alone against the
\* same service answers; once all invocations have returned, no handle is
\* open.
C26_IndependentInvocations ==
    /\ \A h \in 1..Len(calls) :
          /\ calls[h].users \subseteq {calls[h].owner}
          /\ result[calls[h].owner].client = h
    /\ \A p \in Procs :
          /\ (pc[p] \in {"lookup", "get", "get_definition", "create", "finally"} =>
                /\ result[p].client \in 1..Len(calls)
                /\ calls[result[p].client].owner = p
                /\ calls[result[p].client].open)
          /\ (pc[p] = "done" =>
                /\ result[p].value = Alone(p).result
                /\ IF result[p].client = 0
                   THEN Alone(p).calls = <<>>
                   ELSE /\ calls[result[p].client].log = Alone(p).calls
                        /\ ~calls[result[p].client].open)
    /\ ((\A p \in Procs : pc[p] = "done") =>
          /\ \A h \in 1..Len(calls) : ~calls[h].open
          /\ Len(calls) = Cardinality({p \in Procs : env[p].base_url # ""}))

\* Witness of C26: invocation 1 built its handle after invocation 2 and has
\* returned a concept set, while invocation 2 is still cloning on its own handle.
C26_Witness ==
    /\ pc[1] = "done" /\ tool[1] = "create_concept_set"
    /\ result[1].client = 2
    /\ result[1].value.kind = "created"
    /\ Len(calls[2].log) = 3
    /\ pc[2] = "create" /\ tool[2] = "clone_cohort"
    /\ result[2].client = 1
    /\ calls[1].open /\ Len(calls[1].log) = 2

====
